---- MODULE Spec2Model ----
(***************************************************************************)
(* A model of rmtool's rendering context (pkg/render/context.go), the PDF  *)
(* assembly (renderPdf and helpers), the validation of Content and         *)
(* PageMetadata, the Notifications client of package api, and doPin of    *)
(* the command line tool.                                                  *)
(*                                                                         *)
(* Goroutines that share one *Context or one *Notifications are modelled   *)
(* as processes; each statement that touches shared state is one step.     *)
(***************************************************************************)
EXTENDS Integers, Sequences, FiniteSets, TLC

(***************************************************************************)
(* Bounds of the model.                                                    *)
(***************************************************************************)
NumGoroutines == 2
MaxCalls == 3

Goroutines == 1 .. NumGoroutines

(***************************************************************************)
(* Go values.                                                              *)
(***************************************************************************)
\* sync.Mutex: unlocked, or held by a goroutine
Free == 0
\* a nil error
NoErr == ""
\* a nil color.Color
NilColor == "nil"

EmptyMap == [k \in {} |-> 0]
\* m[k] = v on a Go map
Put(m, k, v) == [x \in (DOMAIN m) \cup {k} |-> IF x = k THEN v ELSE m[x]]

\* a nil map[string]image.Image / map[string][]int, and a made one
NilMap == [nil |-> TRUE, m |-> EmptyMap]
MakeMap(m) == [nil |-> FALSE, m |-> m]

\* a nil *image.RGBA, and image.NewRGBA(bounds) for a w x h picture
NilRGBA == [nil |-> TRUE, w |-> 0, h |-> 0]
NewRGBA(w, h) == [nil |-> FALSE, w |-> w, h |-> h]

\* no image (a nil image.Image)
NoImage == [name |-> "", serial |-> 0]

(***************************************************************************)
(* package rmtool: the enumerations of the .content file.                  *)
(***************************************************************************)
\* FileType
Notebook == 0
Epub == 1
Pdf == 2
\* Orientation
Portrait == 0
Landscape == 1
\* TextAlign
AlignLeft == 0
AlignJustify == 1

defaultCoverPage == -1

TemplateNames == {"Blank", "Lines"}

(***************************************************************************)
(* pkg/lines: brush types and brush colours of the notebook format.        *)
(* BrushColor is an integer type; Blue stands for an identifier other than *)
(* Black, Gray and White. Eraser and EraseArea are brush types for which   *)
(* brushNames has no entry.                                                *)
(***************************************************************************)
BrushColors == {"Black", "Gray", "White", "Blue"}

BrushTypes ==
    {"Ballpoint", "BallpointV5", "Pencil", "PencilV5", "MechanicalPencil",
     "MechanicalPencilV5", "Marker", "MarkerV5", "Fineliner", "FinelinerV5",
     "Highlighter", "HighlighterV5", "PaintBrush", "PaintBrushV5",
     "CalligraphyV5", "Eraser", "EraseArea"}

\* the zero value of a string: what a map[...]string gives for a missing key
brushNames(bt) ==
    CASE bt \in {"Ballpoint", "BallpointV5"} -> "ballpoint"
      [] bt \in {"Pencil", "PencilV5"} -> "pencil"
      [] bt \in {"MechanicalPencil", "MechanicalPencilV5"} -> "mech-pencil"
      [] bt \in {"Marker", "MarkerV5"} -> "marker"
      [] bt \in {"Fineliner", "FinelinerV5"} -> "fineliner"
      [] bt \in {"Highlighter", "HighlighterV5"} -> "highlighter"
      [] bt \in {"PaintBrush", "PaintBrushV5", "CalligraphyV5"} -> "ballpoint"
      [] OTHER -> ""

MaskNames == {"ballpoint", "pencil", "mech-pencil", "marker", "fineliner", "highlighter"}

defaultColors ==
    [bc \in {"Black", "Gray", "White"} |->
        CASE bc = "Black" -> "color.Black"
          [] bc = "Gray" -> "RGBA{150,150,150,255}"
          [] bc = "White" -> "color.White"]

\* NewPalette(bg, highlighter, brushColors); a nil map reads like an empty one
NewPalette(bg, highlighter, brushColors) ==
    [Background |-> bg, Highlighter |-> highlighter, colors |-> brushColors]

\* Palette.Color without the fallback to defaultColors
PaletteColorNoDefault(p, bc) ==
    IF bc \in DOMAIN p.colors THEN p.colors[bc] ELSE NilColor

\* Palette.Color
PaletteColor(p, bc) ==
    IF bc \in DOMAIN p.colors
    THEN p.colors[bc]
    ELSE IF bc \in DOMAIN defaultColors THEN defaultColors[bc] ELSE NilColor

(***************************************************************************)
(* package image: rectangles. A rectangle is <<x0, y0, x1, y1>>.           *)
(***************************************************************************)
Min2(a, b) == IF a < b THEN a ELSE b
Max2(a, b) == IF a > b THEN a ELSE b

\* image.Rect(x0, y0, x1, y1): the coordinates are put in order
Rect(x0, y0, x1, y1) == <<Min2(x0, x1), Min2(y0, y1), Max2(x0, x1), Max2(y0, y1)>>
Dx(r) == r[3] - r[1]
Dy(r) == r[4] - r[2]
RectEmpty(r) == r[1] >= r[3] \/ r[2] >= r[4]
ZR == <<0, 0, 0, 0>>
\* Rectangle.Intersect
Intersect(r, s) ==
    LET t == <<Max2(r[1], s[1]), Max2(r[2], s[2]), Min2(r[3], s[3]), Min2(r[4], s[4])>>
    IN  IF RectEmpty(t) THEN ZR ELSE t
\* Rectangle.In: every point of r is in s
RectIn(r, s) ==
    RectEmpty(r) \/ (s[1] <= r[1] /\ r[3] <= s[3] /\ s[2] <= r[2] /\ r[4] <= s[4])
\* (*image.RGBA).Bounds() of an atlas made by image.NewRGBA
Bounds(img) == <<0, 0, img.w, img.h>>

VARIABLES
    palette,      \* Context.palette
    files,        \* the files below Context.DataDir
    sprites,      \* Context.sprites
    spritePixels, \* TRUE once the pixels of the atlas are copied into sprites
    spriteIndex,  \* Context.spriteIndex
    spriteMx,     \* Context.spriteMx
    snap,         \* per goroutine: sprites and spriteIndex when it entered lazyLoadSpritesheet
    tplCache,     \* Context.tplCache
    tplMx,        \* Context.tplMx
    tplReads,     \* per template name: how often readPNG was run for it
    pc,           \* per goroutine: the statement it is at
    call,         \* per goroutine: the function it runs, arguments and locals
    ret,          \* per goroutine: what its last call returned
    calls,        \* number of calls made so far
    doc,          \* the Document given to renderPdf
    rp,           \* the frame of renderPdf: its goroutine and loop position
    pdf,          \* the pages of the gofpdf.Fpdf under construction
    written,      \* what the caller's io.Writer received
    content,      \* the Content that Validate is called on
    page,         \* the PageMetadata that Validate is called on
    conn,         \* Notifications.conn: 0 (nil) or the number of a connection
    connMx,       \* Notifications.connMx
    done,         \* Notifications.done: the number of a channel
    exit,         \* Notifications.exit: the number of a channel
    hdl,          \* Notifications.hdl
    hdlMx,        \* Notifications.hdlMx
    chans,        \* the channels made so far: TRUE when the channel is closed
    socks,        \* the websocket connections dialled so far
    loopG,        \* per connection: the goroutine started by go n.loop()
    readG,        \* per connection: the goroutine started by go n.read()
    invocations,  \* the goroutines started by go handler(msg)
    sent,         \* number of messages the server has sent
    panicked,     \* the panic that ended the process, if any
    pinIn,        \* doPin: the settings, the items of the repository, match and pinned
    pinPc,        \* doPin: the statement it is at
    walkI,        \* doPin: the position of root.Walk in the tree
    group,        \* doPin: the errgroup.Group
    upd,          \* doPin: per node, the goroutine started by group.Go
    repo,         \* doPin: per node, the calls of repo.Update
    pinRet        \* doPin: what it returned

envVars == <<palette, files>>
atlasVars == <<sprites, spritePixels, spriteIndex, spriteMx, snap>>
tplVars == <<tplCache, tplMx, tplReads>>
pdfVars == <<doc, rp, pdf, written>>
contentVars == <<content, page>>
notifVars == <<conn, connMx, done, exit, hdl, hdlMx, chans, socks, loopG, readG,
               invocations, sent, panicked>>
pinVars == <<pinIn, pinPc, walkI, group, upd, repo, pinRet>>
vars == <<palette, files, sprites, spritePixels, spriteIndex, spriteMx, snap,
          tplCache, tplMx, tplReads, pc, call, ret, calls, doc, rp, pdf, written,
          content, page, conn, connMx, done, exit, hdl, hdlMx, chans, socks,
          loopG, readG, invocations, sent, panicked,
          pinIn, pinPc, walkI, group, upd, repo, pinRet>>

NoSnap == [sprites |-> NilRGBA, spriteIndex |-> NilMap]
\* NewContent(Notebook), as far as Validate reads it
NoContent == [FileType |-> Notebook, Orientation |-> Portrait, PageCount |-> 0,
              Pages |-> <<>>, CoverPageNumber |-> defaultCoverPage,
              TextAlignment |-> AlignLeft]
\* a PageMetadata without layers (Layers is nil)
NoPage == [Layers |-> [nil |-> TRUE, s |-> <<>>]]
NoCall == [fn |-> "none", bt |-> "", bc |-> "", name |-> "", col |-> NilColor,
           img |-> NoImage]
NoVal == [kind |-> "none"]
NoRet == [fn |-> "none", err |-> NoErr, val |-> NoVal, call |-> NoCall]
NoFrame == [g |-> 0, i |-> 0, stroke |-> 0]

\* return from the running function of goroutine g: to the caller's frame when
\* the function was called by renderPdf's page loop, else the goroutine is idle
Return(g, err, val) ==
    /\ pc' = [pc EXCEPT ![g] = IF rp.g = g /\ call[g].fn # "renderPdf"
                               THEN "rp_stroke_done" ELSE "idle"]
    /\ ret' = [ret EXCEPT ![g] = [fn |-> call[g].fn, err |-> err, val |-> val,
                                  call |-> call[g]]]

ReturnErr(g, msg) == Return(g, msg, NoVal)

\* a goroutine starts a call
Enter(g, frame, at) ==
    /\ call' = [call EXCEPT ![g] = frame]
    /\ pc' = [pc EXCEPT ![g] = at]
    /\ ret' = [ret EXCEPT ![g] = NoRet]

(***************************************************************************)
(* Context.loadTemplate                                                    *)
(***************************************************************************)
CallLoadTemplate(g, name) ==
    /\ pc[g] = "idle"
    /\ calls < MaxCalls
    /\ calls' = calls + 1
    /\ Enter(g, [NoCall EXCEPT !.fn = "loadTemplate", !.name = name], "lt_lock")
    /\ UNCHANGED <<pinVars, notifVars, contentVars, envVars, atlasVars, tplVars, pdfVars>>

\* c.tplMx.Lock() that does not wait for the mutex to be free
LtLockNoWait(g) ==
    /\ pc[g] = "lt_lock"
    /\ tplMx' = g
    /\ pc' = [pc EXCEPT ![g] = "lt_check"]
    /\ UNCHANGED <<pinVars, notifVars, contentVars, envVars, atlasVars, pdfVars, tplCache, tplReads, call, ret, calls>>

\* c.tplMx.Lock()
LtLock(g) ==
    /\ pc[g] = "lt_lock"
    /\ tplMx = Free
    /\ tplMx' = g
    /\ pc' = [pc EXCEPT ![g] = "lt_check"]
    /\ UNCHANGED <<pinVars, notifVars, contentVars, envVars, atlasVars, pdfVars, tplCache, tplReads, call, ret, calls>>

\* loadTemplate that does not look the name up and reads the file in every call
LtCheckAlwaysRead(g) ==
    /\ pc[g] = "lt_check"
    /\ tplCache' = IF tplCache.nil THEN MakeMap(EmptyMap) ELSE tplCache
    /\ pc' = [pc EXCEPT ![g] = "lt_read"]
    /\ UNCHANGED <<pinVars, notifVars, contentVars, envVars, atlasVars, pdfVars, tplMx, ret, tplReads, call, calls>>

\* make the map when it is nil, look the name up; a hit returns (deferred Unlock)
LtCheck(g) ==
    /\ pc[g] = "lt_check"
    /\ LET cache == IF tplCache.nil THEN MakeMap(EmptyMap) ELSE tplCache
           name == call[g].name
       IN  /\ tplCache' = cache
           /\ IF name \in DOMAIN cache.m
              THEN /\ tplMx' = Free
                   /\ Return(g, NoErr, [kind |-> "image", img |-> cache.m[name]])
              ELSE /\ pc' = [pc EXCEPT ![g] = "lt_read"]
                   /\ UNCHANGED <<tplMx, ret>>
    /\ UNCHANGED <<pinVars, notifVars, contentVars, envVars, atlasVars, pdfVars, tplReads, call, calls>>

\* loadTemplate that remembers a failed read with a nil image in the cache
LtReadCacheFailure(g) ==
    /\ pc[g] = "lt_read"
    /\ LET name == call[g].name
           serial == tplReads[name] + 1
       IN  /\ tplReads' = [tplReads EXCEPT ![name] = serial]
           /\ IF name \in files.templates
              THEN /\ call' = [call EXCEPT ![g].img = [name |-> name, serial |-> serial]]
                   /\ pc' = [pc EXCEPT ![g] = "lt_insert"]
                   /\ UNCHANGED <<tplMx, tplCache, ret>>
              ELSE /\ tplCache' = [tplCache EXCEPT !.m = Put(tplCache.m, name, NoImage)]
                   /\ tplMx' = Free
                   /\ ReturnErr(g, "open template")
                   /\ UNCHANGED call
    /\ UNCHANGED <<pinVars, notifVars, contentVars, envVars, atlasVars, pdfVars, calls>>

\* loadTemplate whose error return leaves tplMx locked
LtReadNoUnlock(g) ==
    /\ pc[g] = "lt_read"
    /\ LET name == call[g].name
           serial == tplReads[name] + 1
       IN  /\ tplReads' = [tplReads EXCEPT ![name] = serial]
           /\ IF name \in files.templates
              THEN /\ call' = [call EXCEPT ![g].img = [name |-> name, serial |-> serial]]
                   /\ pc' = [pc EXCEPT ![g] = "lt_insert"]
                   /\ UNCHANGED <<tplMx, ret>>
              ELSE /\ ReturnErr(g, "open template")
                   /\ UNCHANGED <<tplMx, call>>
    /\ UNCHANGED <<pinVars, notifVars, contentVars, envVars, atlasVars, pdfVars, tplCache, calls>>

\* readPNG(c.DataDir, "templates", name+".png"); an error returns (deferred Unlock)
LtRead(g) ==
    /\ pc[g] = "lt_read"
    /\ LET name == call[g].name
           serial == tplReads[name] + 1
       IN  /\ tplReads' = [tplReads EXCEPT ![name] = serial]
           /\ IF name \in files.templates
              THEN /\ call' = [call EXCEPT ![g].img = [name |-> name, serial |-> serial]]
                   /\ pc' = [pc EXCEPT ![g] = "lt_insert"]
                   /\ UNCHANGED <<tplMx, ret>>
              ELSE /\ tplMx' = Free
                   /\ ReturnErr(g, "open template")
                   /\ UNCHANGED call
    /\ UNCHANGED <<pinVars, notifVars, contentVars, envVars, atlasVars, pdfVars, tplCache, calls>>

\* c.tplCache[name] = img; return img (deferred Unlock)
LtInsert(g) ==
    /\ pc[g] = "lt_insert"
    /\ tplCache' = [tplCache EXCEPT !.m = Put(tplCache.m, call[g].name, call[g].img)]
    /\ tplMx' = Free
    /\ Return(g, NoErr, [kind |-> "image", img |-> call[g].img])
    /\ UNCHANGED <<pinVars, notifVars, contentVars, envVars, atlasVars, pdfVars, tplReads, call, calls>>

(***************************************************************************)
(* Context.loadBrush, Context.loadBrushMask, Context.lazyLoadSpritesheet   *)
(***************************************************************************)
\* a brush; the brush types that keep no mask or no color have NoMask, NilColor
NoMask == [rect |-> ZR, nil |-> TRUE]
Brush(kind, mask, fill, color) == [kind |-> kind, mask |-> mask, fill |-> fill, color |-> color]

\* the switch of loadBrush with the Highlighter filled with the stroke's colour
BuildBrushStrokeFill(bt, mask, col, p) ==
    CASE bt \in {"Ballpoint", "BallpointV5"} -> Brush("Ballpoint", mask, col, col)
      [] bt \in {"Pencil", "PencilV5"} -> Brush("Pencil", mask, col, NilColor)
      [] bt \in {"MechanicalPencil", "MechanicalPencilV5"} ->
            Brush("MechanicalPencil", mask, col, NilColor)
      [] bt \in {"Marker", "MarkerV5"} -> Brush("Marker", mask, col, NilColor)
      [] bt \in {"Fineliner", "FinelinerV5"} -> Brush("Fineliner", mask, col, col)
      [] bt \in {"Highlighter", "HighlighterV5"} -> Brush("Highlighter", mask, col, NilColor)
      [] bt \in {"PaintBrush", "PaintBrushV5"} -> Brush("Paintbrush", NoMask, col, NilColor)
      [] OTHER -> Brush("BasePen", mask, col, NilColor)

\* the switch of loadBrush: the brush for type bt with mask and colour col
BuildBrush(bt, mask, col, p) ==
    CASE bt \in {"Ballpoint", "BallpointV5"} -> Brush("Ballpoint", mask, col, col)
      [] bt \in {"Pencil", "PencilV5"} -> Brush("Pencil", mask, col, NilColor)
      [] bt \in {"MechanicalPencil", "MechanicalPencilV5"} ->
            Brush("MechanicalPencil", mask, col, NilColor)
      [] bt \in {"Marker", "MarkerV5"} -> Brush("Marker", mask, col, NilColor)
      [] bt \in {"Fineliner", "FinelinerV5"} -> Brush("Fineliner", mask, col, col)
      [] bt \in {"Highlighter", "HighlighterV5"} ->
            Brush("Highlighter", mask, p.Highlighter, NilColor)
      [] bt \in {"PaintBrush", "PaintBrushV5"} -> Brush("Paintbrush", NoMask, col, NilColor)
      [] OTHER -> Brush("BasePen", mask, col, NilColor)

\* loadBrush without the check of the resolved colour
EnterLoadBrushNoColorCheck(g, bt, bc) ==
    LET col == PaletteColor(palette, bc)
        name == brushNames(bt)
        frame == [NoCall EXCEPT !.fn = "loadBrush", !.bt = bt, !.bc = bc,
                                !.col = col, !.name = name]
        back == IF rp.g = g THEN "rp_stroke_done" ELSE "idle"
        failed(msg) == [fn |-> "loadBrush", err |-> msg, val |-> NoVal, call |-> frame]
    IN  /\ call' = [call EXCEPT ![g] = frame]
        /\ IF name = ""
           THEN /\ pc' = [pc EXCEPT ![g] = back]
                /\ ret' = [ret EXCEPT ![g] = failed("unsupported brush type")]
           ELSE /\ pc' = [pc EXCEPT ![g] = "ls_lock"]
                /\ ret' = [ret EXCEPT ![g] = NoRet]

\* loadBrush up to the call of loadBrushMask: the colour, then the mask's name
EnterLoadBrush(g, bt, bc) ==
    LET col == PaletteColor(palette, bc)
        name == brushNames(bt)
        frame == [NoCall EXCEPT !.fn = "loadBrush", !.bt = bt, !.bc = bc,
                                !.col = col, !.name = name]
        back == IF rp.g = g THEN "rp_stroke_done" ELSE "idle"
        failed(msg) == [fn |-> "loadBrush", err |-> msg, val |-> NoVal, call |-> frame]
    IN  /\ call' = [call EXCEPT ![g] = frame]
        /\ IF col = NilColor
           THEN /\ pc' = [pc EXCEPT ![g] = back]
                /\ ret' = [ret EXCEPT ![g] = failed("invalid color")]
           ELSE IF name = ""
           THEN /\ pc' = [pc EXCEPT ![g] = back]
                /\ ret' = [ret EXCEPT ![g] = failed("unsupported brush type")]
           ELSE /\ pc' = [pc EXCEPT ![g] = "ls_lock"]
                /\ ret' = [ret EXCEPT ![g] = NoRet]

CallLoadBrush(g, bt, bc) ==
    /\ pc[g] = "idle"
    /\ EnterLoadBrush(g, bt, bc)
    /\ UNCHANGED <<pinVars, notifVars, contentVars, envVars, atlasVars, tplVars, pdfVars, calls>>

\* c.spriteMx.Lock() that does not wait for the mutex to be free
LsLockNoWait(g) ==
    /\ pc[g] = "ls_lock"
    /\ spriteMx' = g
    /\ snap' = [snap EXCEPT ![g] = [sprites |-> sprites, spriteIndex |-> spriteIndex]]
    /\ pc' = [pc EXCEPT ![g] = "ls_check"]
    /\ UNCHANGED <<pinVars, notifVars, contentVars, envVars, tplVars, pdfVars, sprites, spritePixels, spriteIndex,
                   call, ret, calls>>

\* lazyLoadSpritesheet: c.spriteMx.Lock()
LsLock(g) ==
    /\ pc[g] = "ls_lock"
    /\ spriteMx = Free
    /\ spriteMx' = g
    /\ snap' = [snap EXCEPT ![g] = [sprites |-> sprites, spriteIndex |-> spriteIndex]]
    /\ pc' = [pc EXCEPT ![g] = "ls_check"]
    /\ UNCHANGED <<pinVars, notifVars, contentVars, envVars, tplVars, pdfVars, sprites, spritePixels, spriteIndex,
                   call, ret, calls>>

\* lazyLoadSpritesheet: if c.sprites != nil { return nil } (deferred Unlock);
\* loadBrushMask goes on with the lookup
LsCheck(g) ==
    /\ pc[g] = "ls_check"
    /\ IF ~sprites.nil
       THEN /\ spriteMx' = Free
            /\ pc' = [pc EXCEPT ![g] = "bm_index"]
       ELSE /\ pc' = [pc EXCEPT ![g] = "ls_open"]
            /\ UNCHANGED spriteMx
    /\ UNCHANGED <<pinVars, notifVars, contentVars, envVars, tplVars, pdfVars, sprites, spritePixels, spriteIndex, snap,
                   call, ret, calls>>

\* lazyLoadSpritesheet: os.Open(jsonPath); an error returns (deferred Unlock)
LsOpen(g) ==
    /\ pc[g] = "ls_open"
    /\ IF files.json = "missing"
       THEN /\ spriteMx' = Free
            /\ ReturnErr(g, "open sprites.json")
       ELSE /\ pc' = [pc EXCEPT ![g] = "ls_decode"]
            /\ UNCHANGED <<spriteMx, ret>>
    /\ UNCHANGED <<pinVars, notifVars, contentVars, envVars, tplVars, pdfVars, sprites, spritePixels, spriteIndex, snap,
                   call, calls>>

\* json: the entries of the file decoded into the map m (made when it is nil)
DecodeInto(m, entries) ==
    MakeMap([k \in (DOMAIN m.m) \cup (DOMAIN entries) |->
                IF k \in DOMAIN entries THEN entries[k] ELSE m.m[k]])

\* lazyLoadSpritesheet: json.NewDecoder(jsonFile).Decode(&c.spriteIndex).
\* A text that is no JSON is refused before anything is stored; a JSON text with
\* an entry of the wrong type stores the entries that fit and is an error.
LsDecode(g) ==
    /\ pc[g] = "ls_decode"
    /\ CASE files.json = "syntax" ->
                /\ spriteMx' = Free
                /\ ReturnErr(g, "decode sprites.json")
                /\ UNCHANGED spriteIndex
         [] files.json = "mistyped" ->
                /\ spriteIndex' = DecodeInto(spriteIndex, files.index)
                /\ spriteMx' = Free
                /\ ReturnErr(g, "decode sprites.json")
         [] OTHER ->
                /\ spriteIndex' = DecodeInto(spriteIndex, files.index)
                /\ pc' = [pc EXCEPT ![g] = "ls_png"]
                /\ UNCHANGED <<spriteMx, ret>>
    /\ UNCHANGED <<pinVars, notifVars, contentVars, envVars, tplVars, pdfVars, sprites, spritePixels, snap, call, calls>>

\* lazyLoadSpritesheet: readPNG(c.DataDir, "sprites.png"); an error returns
\* (deferred Unlock), else c.sprites = image.NewRGBA(img.Bounds())
LsReadPNG(g) ==
    /\ pc[g] = "ls_png"
    /\ IF files.png = "missing"
       THEN /\ spriteMx' = Free
            /\ ReturnErr(g, "open sprites.png")
            /\ UNCHANGED sprites
       ELSE /\ sprites' = NewRGBA(files.w, files.h)
            /\ pc' = [pc EXCEPT ![g] = "ls_copy"]
            /\ UNCHANGED <<spriteMx, ret>>
    /\ UNCHANGED <<pinVars, notifVars, contentVars, envVars, tplVars, pdfVars, spritePixels, spriteIndex, snap, call, calls>>

\* lazyLoadSpritesheet: the loop that copies the pixels; return nil (deferred
\* Unlock); loadBrushMask goes on with the lookup
LsCopy(g) ==
    /\ pc[g] = "ls_copy"
    /\ spritePixels' = TRUE
    /\ spriteMx' = Free
    /\ pc' = [pc EXCEPT ![g] = "bm_index"]
    /\ UNCHANGED <<pinVars, notifVars, contentVars, envVars, tplVars, pdfVars, sprites, spriteIndex, snap, call, ret, calls>>

lazyLoadSpritesheet(g) ==
    LsLock(g) \/ LsCheck(g) \/ LsOpen(g) \/ LsDecode(g) \/ LsReadPNG(g) \/ LsCopy(g)

\* loadBrushMask: idx := c.spriteIndex[name] and the checks of the entry,
\* read without the lock
BmIndex(g) ==
    /\ pc[g] = "bm_index"
    /\ LET name == call[g].name
       IN  IF name \notin DOMAIN spriteIndex.m
           THEN ReturnErr(g, "no sprite image")
           ELSE IF Len(spriteIndex.m[name]) # 4
           THEN ReturnErr(g, "invalid sprite entry")
           ELSE /\ pc' = [pc EXCEPT ![g] = "bm_rect"]
                /\ UNCHANGED ret
    /\ UNCHANGED <<pinVars, notifVars, contentVars, envVars, atlasVars, tplVars, pdfVars, call, calls>>

\* the sanity check of loadBrushMask: TRUE when the rectangle is refused
TooLarge(rect, atlas) ==
    Dx(rect) > Dx(Bounds(atlas)) \/ Dy(rect) > Dy(Bounds(atlas))

\* (*image.RGBA).SubImage: the part of the atlas that rect covers
SubImage(atlas, rect) == [rect |-> Intersect(rect, Bounds(atlas)), nil |-> FALSE]

\* loadBrushMask: the rectangle of the entry, the sanity check and the
\* sub-image, read without the lock; loadBrush builds the brush with it
BmRect(g) ==
    /\ pc[g] = "bm_rect"
    /\ LET idx == spriteIndex.m[call[g].name]
           rect == Rect(idx[1], idx[2], idx[3], idx[4])
       IN  IF TooLarge(rect, sprites)
           THEN ReturnErr(g, "sprite bounds not within spritesheet dimensions")
           ELSE Return(g, NoErr,
                       BuildBrush(call[g].bt, SubImage(sprites, rect), call[g].col, palette))
    /\ UNCHANGED <<pinVars, notifVars, contentVars, envVars, atlasVars, tplVars, pdfVars, call, calls>>

loadBrushMask(g) == lazyLoadSpritesheet(g) \/ BmIndex(g) \/ BmRect(g)

\* the steps of a goroutine inside loadTemplate
loadTemplate(g) == LtLock(g) \/ LtCheck(g) \/ LtRead(g) \/ LtInsert(g)

(***************************************************************************)
(* Initial states                                                          *)
(***************************************************************************)
\* the palette of DefaultContext
DefaultPalette == NewPalette("color.White", "RGBA{150,150,150,255}", defaultColors)

\* a sprites.json whose entries all name the rectangle r
IndexOf(r) == [n \in MaskNames |-> r]

DataFiles(json, index, png, size, templates) ==
    [json |-> json, index |-> index, png |-> png, w |-> size, h |-> size,
     templates |-> templates]

\* a nil MessageHandler, and no panic
NilHandler == "nil"
NoPanic == ""

(***************************************************************************)
(* doPin of the command line tool: the tree of the repository's items and  *)
(* the errgroup.Group of the updates.                                      *)
(***************************************************************************)
MaxNodes == 3
Nodes == 1 .. MaxNodes
\* the names of the nodes; doPin is called with the first as match
NodeNames == {"a", "b"}
Match == "a"

\* errors of setupRepo, of repo.List and of repo.Update for a node
SetupErr == "setup failed"
ListErr == "list failed"
UpdateErr(n) == "update failed: " \o ToString(n)

\* the zero errgroup.Group: no goroutine is running, no error is kept
ZeroGroup == [wg |-> 0, err |-> NoErr]
\* no goroutine was started for a node; the repository was not called for it
NoUpd == [pc |-> "none", err |-> NoErr, pinned |-> "unset"]
NoUpdate == [calls |-> 0, pinned |-> "unset"]
NoPinRet == [returned |-> FALSE, err |-> NoErr]
NoPinIn == [setup |-> TRUE, list |-> TRUE, pinned |-> FALSE,
            names |-> [n \in Nodes |-> "b"], fails |-> {}]

\* doPin is not called
InitNoPin ==
    /\ pinIn = NoPinIn
    /\ pinPc = "idle"
    /\ walkI = 0
    /\ group = ZeroGroup
    /\ upd = [n \in Nodes |-> NoUpd]
    /\ repo = [n \in Nodes |-> NoUpdate]
    /\ pinRet = NoPinRet

\* the state after newNotifications: not connected, two open channels, no
\* handler
InitNotifications ==
    /\ conn = 0
    /\ connMx = Free
    /\ chans = <<FALSE, FALSE>>
    /\ done = 1
    /\ exit = 2
    /\ hdl = NilHandler
    /\ hdlMx = Free
    /\ socks = <<>>
    /\ loopG = <<>>
    /\ readG = <<>>
    /\ invocations = <<>>
    /\ sent = 0
    /\ panicked = NoPanic

\* the state after NewContext: no atlas, no cache, nobody running
InitContext ==
    /\ sprites = NilRGBA
    /\ spritePixels = FALSE
    /\ spriteIndex = NilMap
    /\ spriteMx = Free
    /\ snap = [g \in Goroutines |-> NoSnap]
    /\ tplCache = NilMap
    /\ tplMx = Free
    /\ tplReads = [n \in TemplateNames |-> 0]
    /\ pc = [g \in Goroutines |-> "idle"]
    /\ call = [g \in Goroutines |-> NoCall]
    /\ ret = [g \in Goroutines |-> NoRet]
    /\ calls = 0

\* nothing written to the io.Writer
NoOutput == [n |-> 0, pages |-> <<>>]

NoDoc == [FileType |-> Notebook, Pages |-> <<>>, Drawings |-> <<>>]
InitNoPdf ==
    /\ content = NoContent
    /\ page = NoPage
    /\ doc = NoDoc
    /\ rp = NoFrame
    /\ pdf = <<>>
    /\ written = NoOutput

(***************************************************************************)
(* Goroutines that call loadTemplate on one Context.                       *)
(***************************************************************************)
AtlasSize == 1

InitTpl ==
    /\ InitContext
    /\ InitNotifications
    /\ InitNoPin
    /\ InitNoPdf
    /\ palette = DefaultPalette
    /\ \E t \in SUBSET TemplateNames :
          files = DataFiles("ok", IndexOf(<<0, 0, 1, 1>>), "ok", AtlasSize, t)

NextTpl ==
    \E g \in Goroutines :
        \/ \E name \in TemplateNames : CallLoadTemplate(g, name)
        \/ loadTemplate(g)

SpecTpl == InitTpl /\ [][NextTpl]_vars

(***************************************************************************)
(* C1: concurrent loadTemplate calls for a loadable name. A goroutine that *)
(* checks the cache, reads the file or inserts the image holds tplMx, the  *)
(* file of a loadable template is read at most once (exactly once when a   *)
(* call for it has returned), and every such call returns without error    *)
(* the one image that is in the cache.                                     *)
(***************************************************************************)
C1_LoadedOnce ==
    /\ \A g \in Goroutines : pc[g] \in {"lt_check", "lt_read", "lt_insert"} => tplMx = g
    /\ \A n \in files.templates : tplReads[n] <= 1
    /\ \A g \in Goroutines :
          (ret[g].fn = "loadTemplate" /\ ret[g].call.name \in files.templates) =>
             LET n == ret[g].call.name
             IN  /\ ret[g].err = NoErr
                 /\ tplReads[n] = 1
                 /\ n \in DOMAIN tplCache.m
                 /\ ret[g].val.img = tplCache.m[n]
                 /\ ret[g].val.img = [name |-> n, serial |-> 1]

\* two goroutines have both returned from loadTemplate for the same loadable name
C1_Witness ==
    \E g1, g2 \in Goroutines :
        /\ g1 # g2
        /\ ret[g1].fn = "loadTemplate" /\ ret[g2].fn = "loadTemplate"
        /\ ret[g1].call.name = ret[g2].call.name
        /\ ret[g1].call.name \in files.templates
        /\ ret[g1].err = NoErr /\ ret[g2].err = NoErr

(***************************************************************************)
(* Goroutines that call loadBrush on one Context.                          *)
(***************************************************************************)
InitAtlas ==
    /\ InitContext
    /\ InitNotifications
    /\ InitNoPin
    /\ InitNoPdf
    /\ palette = DefaultPalette
    /\ \E json \in {"missing", "syntax", "mistyped", "ok"}, png \in {"missing", "ok"} :
          files = DataFiles(json, IndexOf(<<0, 0, 1, 1>>), png, AtlasSize, {})

NextAtlas ==
    \E g \in Goroutines :
        \/ \E bt \in {"Ballpoint", "Highlighter", "Eraser"}, bc \in {"Black", "Blue"} :
              CallLoadBrush(g, bt, bc)
        \/ loadBrushMask(g)

SpecAtlas == InitAtlas /\ [][NextAtlas]_vars

(***************************************************************************)
(* C2: the sprite atlas is populated at most once. Once Context.sprites is *)
(* not nil, no step writes sprites or spriteIndex; and a goroutine that    *)
(* reads spriteIndex or sprites outside the lock (the lookup and the       *)
(* bounds check of loadBrushMask) does so only when the atlas is complete: *)
(* sprites set and its pixels copied.                                      *)
(***************************************************************************)
C2_PopulatedOnce ==
    /\ [](\A g \in Goroutines :
             pc[g] \in {"bm_index", "bm_rect"} => (~sprites.nil /\ spritePixels))
    /\ [][~sprites.nil => (sprites' = sprites /\ spriteIndex' = spriteIndex)]_vars

\* two goroutines read the populated atlas outside the lock at the same time
C2_Witness ==
    \E g1, g2 \in Goroutines :
        /\ g1 # g2
        /\ pc[g1] = "bm_rect"
        /\ pc[g2] \in {"bm_index", "bm_rect"}
        /\ ~sprites.nil

(***************************************************************************)
(* One goroutine that calls loadBrush with every brush type and colour, on *)
(* contexts with different palettes, sprite index files and atlas files.   *)
(***************************************************************************)
MaxCoord == 2

Coords == 0 .. MaxCoord

\* a palette that maps Black and Blue, and one that maps nothing
UserPalette ==
    NewPalette("user.Background", "user.Tint",
               [bc \in {"Black", "Blue"} |->
                   IF bc = "Black" THEN "user.Black" ELSE "user.Blue"])
EmptyPalette == NewPalette("color.White", "RGBA{150,150,150,255}", EmptyMap)

BrushPalettes == {DefaultPalette, UserPalette}

\* index files: every rectangle over Coords; an entry missing; entries that
\* are no four numbers
BrushIndexes ==
    {IndexOf(<<x0, y0, x1, y1>>) : x0 \in Coords, y0 \in Coords, x1 \in Coords, y1 \in Coords}
    \cup {[n \in MaskNames \ {"ballpoint"} |-> <<0, 0, 1, 1>>],
          IndexOf(<<0, 0, 1>>), IndexOf(<<>>)}

BrushFiles ==
    {DataFiles(json, IndexOf(<<0, 0, 1, 1>>), png, AtlasSize, {}) :
        json \in {"missing", "syntax", "mistyped", "ok"}, png \in {"missing", "ok"}}
    \cup {DataFiles("ok", index, "ok", AtlasSize, {}) : index \in BrushIndexes}

InitBrush ==
    /\ InitContext
    /\ InitNotifications
    /\ InitNoPin
    /\ InitNoPdf
    /\ palette \in BrushPalettes
    /\ files \in BrushFiles

NextBrush ==
    \/ \E bt \in BrushTypes, bc \in {"Black", "White", "Blue"} : CallLoadBrush(1, bt, bc)
    \/ loadBrushMask(1)

SpecBrush == InitBrush /\ [][NextBrush]_vars

\* the brush types that the switch of loadBrush has a case for
RecognizedTypes ==
    {"Ballpoint", "BallpointV5", "Pencil", "PencilV5", "MechanicalPencil",
     "MechanicalPencilV5", "Marker", "MarkerV5", "Fineliner", "FinelinerV5",
     "Highlighter", "HighlighterV5", "PaintBrush", "PaintBrushV5"}

\* the errors of lazyLoadSpritesheet
AtlasErrors == {"open sprites.json", "decode sprites.json", "open sprites.png"}

\* both atlas files can be read and every entry of the index is a rectangle
\* inside the atlas
AtlasLoadable ==
    /\ files.json = "ok"
    /\ files.png = "ok"
    /\ DOMAIN files.index = MaskNames
    /\ \A n \in MaskNames :
          /\ Len(files.index[n]) = 4
          /\ LET e == files.index[n]
             IN  /\ ~RectEmpty(Rect(e[1], e[2], e[3], e[4]))
                 /\ RectIn(Rect(e[1], e[2], e[3], e[4]), <<0, 0, files.w, files.h>>)

(***************************************************************************)
(* C3: sprite atlas loading is all-or-nothing. When lazyLoadSpritesheet    *)
(* has returned an error, Context.sprites and Context.spriteIndex are what *)
(* they were when the call began.                                          *)
(***************************************************************************)
C3_AllOrNothing ==
    \A g \in Goroutines :
        (ret[g].fn = "loadBrush" /\ ret[g].err \in AtlasErrors) =>
            (sprites = snap[g].sprites /\ spriteIndex = snap[g].spriteIndex)

(***************************************************************************)
(* C6: for every brush type other than the recognized variants, loadBrush  *)
(* with a resolvable colour and a loadable atlas returns no error but the  *)
(* base pen.                                                               *)
(***************************************************************************)
C6_FallbackNeverFails ==
    \A g \in Goroutines :
        (/\ ret[g].fn = "loadBrush"
         /\ ret[g].call.bt \notin RecognizedTypes
         /\ ret[g].call.col # NilColor
         /\ AtlasLoadable) =>
            (ret[g].err = NoErr /\ ret[g].val.kind = "BasePen")

(***************************************************************************)
(* C8: for every brush type, loadBrush with a colour that neither the      *)
(* palette nor defaultColors resolves returns the error "invalid color",   *)
(* in the very step of the call: that step changes neither the atlas nor   *)
(* the template cache nor a lock, and no call with such a colour is ever   *)
(* inside loadBrushMask or lazyLoadSpritesheet.                            *)
(***************************************************************************)
C8_InvalidColorFirst ==
    /\ [](\A g \in Goroutines :
            (call[g].fn = "loadBrush" /\ call[g].col = NilColor) =>
                (pc[g] = "idle" /\ ret[g].fn = "loadBrush" /\ ret[g].err = "invalid color"))
    /\ [][\A g \in Goroutines :
            (ret'[g] # ret[g] /\ ret'[g].err = "invalid color") =>
                (/\ pc[g] = "idle"
                 /\ sprites' = sprites /\ spritePixels' = spritePixels
                 /\ spriteIndex' = spriteIndex /\ spriteMx' = spriteMx
                 /\ tplCache' = tplCache /\ tplMx' = tplMx)]_vars

\* loadBrush has refused a colour for a brush type without a mask name, on a
\* context whose atlas is not loaded
C8_Witness ==
    /\ ret[1].fn = "loadBrush"
    /\ ret[1].err = "invalid color"
    /\ ret[1].call.bt = "Eraser"
    /\ ret[1].call.bc = "Blue"
    /\ sprites.nil /\ spriteIndex.nil

(***************************************************************************)
(* C9: with the atlas loaded, loadBrushMask returns an error for every     *)
(* sprite index rectangle that does not lie entirely inside the bounds of  *)
(* the atlas.                                                              *)
(***************************************************************************)
C9_OnlyContained ==
    \A g \in Goroutines :
        (/\ ret[g].fn = "loadBrush"
         /\ ret[g].call.col # NilColor
         /\ ret[g].call.name \in DOMAIN spriteIndex.m
         /\ ~sprites.nil
         /\ Len(spriteIndex.m[ret[g].call.name]) = 4
         /\ LET e == spriteIndex.m[ret[g].call.name]
            IN  ~RectIn(Rect(e[1], e[2], e[3], e[4]), Bounds(sprites))) =>
            ret[g].err # NoErr

(***************************************************************************)
(* Palette.Color on the palettes a caller can build with NewPalette.       *)
(***************************************************************************)
\* colours a caller maps a brush colour to
UserColors == {"user.Color", "color.White"}

\* the mappings from some of the brush colours to colours, the empty (or nil)
\* mapping among them
UserMappings ==
    UNION {[keys -> UserColors] : keys \in SUBSET BrushColors}

CallColor(g, bc) ==
    /\ pc[g] = "idle"
    /\ call' = [call EXCEPT ![g] = [NoCall EXCEPT !.fn = "Color", !.bc = bc]]
    /\ ret' = [ret EXCEPT ![g] =
                  [fn |-> "Color", err |-> NoErr,
                   val |-> [kind |-> "color", col |-> PaletteColor(palette, bc)],
                   call |-> [NoCall EXCEPT !.fn = "Color", !.bc = bc]]]
    /\ UNCHANGED <<pinVars, notifVars, contentVars, envVars, atlasVars, tplVars, pdfVars, pc, calls>>

InitPalette ==
    /\ InitContext
    /\ InitNotifications
    /\ InitNoPin
    /\ InitNoPdf
    /\ \E m \in UserMappings, tint \in {"RGBA{150,150,150,255}", "user.Tint"} :
          palette = NewPalette("color.White", tint, m)
    /\ files = DataFiles("ok", IndexOf(<<0, 0, 1, 1>>), "ok", AtlasSize, {})

NextPalette == \E bc \in BrushColors : CallColor(1, bc)

SpecPalette == InitPalette /\ [][NextPalette]_vars

MaxPages == 2
MaxStrokes == 1

PageIDs == <<"p1", "p2", "p3", "p4">>

NotFound == [found |-> FALSE, strokes |-> <<>>]
Drawing(strokes) == [found |-> TRUE, strokes |-> strokes]

\* return from renderPdf
RpReturn(g, err) ==
    /\ pc' = [pc EXCEPT ![g] = "idle"]
    /\ rp' = [rp EXCEPT !.g = 0]
    /\ ret' = [ret EXCEPT ![g] = [fn |-> "renderPdf", err |-> err, val |-> NoVal,
                                  call |-> [NoCall EXCEPT !.fn = "renderPdf"]]]

\* renderPdf that does not look at the file type
CallRenderPdfAnyType(g) ==
    /\ pc[g] = "idle"
    /\ rp.g = 0
    /\ written' = NoOutput
    /\ pdf' = <<>>
    /\ call' = [call EXCEPT ![g] = [NoCall EXCEPT !.fn = "renderPdf"]]
    /\ ret' = [ret EXCEPT ![g] = NoRet]
    /\ rp' = [g |-> g, i |-> 1, stroke |-> 0]
    /\ pc' = [pc EXCEPT ![g] = IF doc.FileType = Pdf THEN "rp_overlay" ELSE "rp_loop"]
    /\ UNCHANGED <<pinVars, notifVars, contentVars, envVars, atlasVars, tplVars, doc, calls>>

\* renderPdf, called with a new writer: the check of the file type, setupPdf,
\* and the choice between overlayPdf and drawingsPdf
CallRenderPdf(g) ==
    /\ pc[g] = "idle"
    /\ rp.g = 0
    /\ written' = NoOutput
    /\ pdf' = <<>>
    /\ call' = [call EXCEPT ![g] = [NoCall EXCEPT !.fn = "renderPdf"]]
    /\ IF doc.FileType = Epub
       THEN /\ pc' = pc
            /\ rp' = [g |-> 0, i |-> 0, stroke |-> 0]
            /\ ret' = [ret EXCEPT ![g] =
                          [fn |-> "renderPdf", err |-> "render Pdf not supported for file type",
                           val |-> NoVal, call |-> [NoCall EXCEPT !.fn = "renderPdf"]]]
       ELSE /\ ret' = [ret EXCEPT ![g] = NoRet]
            /\ rp' = [g |-> g, i |-> 1, stroke |-> 0]
            /\ pc' = [pc EXCEPT ![g] = IF doc.FileType = Pdf THEN "rp_overlay" ELSE "rp_loop"]
    /\ UNCHANGED <<pinVars, notifVars, contentVars, envVars, atlasVars, tplVars, doc, calls>>

\* overlayPdf(c, d, pdf): it fails, or it leaves one page per page of the
\* document, each the source page with the ink on it; renderPdf returns the
\* error, else goes on to pdf.Output
RpOverlay(g) ==
    /\ pc[g] = "rp_overlay"
    /\ \/ /\ \E k \in 0 .. Len(doc.Pages) :
                pdf' = [j \in 1 .. k |-> [id |-> doc.Pages[j], image |-> TRUE]]
          /\ RpReturn(g, "overlay failed")
       \/ /\ pdf' = [j \in 1 .. Len(doc.Pages) |-> [id |-> doc.Pages[j], image |-> TRUE]]
          /\ pc' = [pc EXCEPT ![g] = "rp_output"]
          /\ UNCHANGED <<rp, ret>>
    /\ UNCHANGED <<pinVars, notifVars, contentVars, envVars, atlasVars, tplVars, doc, written, call, calls>>

\* drawingsPdf that goes on with the next page when a drawing is not found
RpLoopSkipMissing(g) ==
    /\ pc[g] = "rp_loop"
    /\ IF rp.i > Len(doc.Pages)
       THEN /\ pc' = [pc EXCEPT ![g] = "rp_output"]
            /\ UNCHANGED <<rp, ret, pdf>>
       ELSE IF ~doc.Drawings[doc.Pages[rp.i]].found
       THEN /\ rp' = [rp EXCEPT !.i = rp.i + 1]
            /\ UNCHANGED <<pc, ret, pdf>>
       ELSE /\ pdf' = Append(pdf, [id |-> doc.Pages[rp.i], image |-> FALSE])
            /\ rp' = [rp EXCEPT !.stroke = 1]
            /\ pc' = [pc EXCEPT ![g] = "rp_png"]
            /\ UNCHANGED ret
    /\ UNCHANGED <<pinVars, notifVars, contentVars, envVars, atlasVars, tplVars, doc, written, call, calls>>

\* drawingsPdf: the next page of the loop, or return nil after the last;
\* doRenderPdfPage: doc.Drawing(pageID), whose error renderPdf returns, then
\* pdf.AddPage()
RpLoop(g) ==
    /\ pc[g] = "rp_loop"
    /\ IF rp.i > Len(doc.Pages)
       THEN /\ pc' = [pc EXCEPT ![g] = "rp_output"]
            /\ UNCHANGED <<rp, ret, pdf>>
       ELSE IF ~doc.Drawings[doc.Pages[rp.i]].found
       THEN /\ RpReturn(g, "drawing not found")
            /\ UNCHANGED pdf
       ELSE /\ pdf' = Append(pdf, [id |-> doc.Pages[rp.i], image |-> FALSE])
            /\ rp' = [rp EXCEPT !.stroke = 1]
            /\ pc' = [pc EXCEPT ![g] = "rp_png"]
            /\ UNCHANGED ret
    /\ UNCHANGED <<pinVars, notifVars, contentVars, envVars, atlasVars, tplVars, doc, written, call, calls>>

\* drawingToPdf: renderPNG(c, d, false, &buf) resolves the brush of the next
\* stroke; after the last stroke the picture is placed on the page
\* (pdf.ImageOptions) and the loop of drawingsPdf goes on
RpPng(g) ==
    /\ pc[g] = "rp_png"
    /\ LET strokes == doc.Drawings[doc.Pages[rp.i]].strokes
       IN  IF rp.stroke > Len(strokes)
           THEN /\ pdf' = [pdf EXCEPT ![Len(pdf)].image = TRUE]
                /\ rp' = [rp EXCEPT !.i = rp.i + 1, !.stroke = 0]
                /\ pc' = [pc EXCEPT ![g] = "rp_loop"]
                /\ UNCHANGED <<call, ret>>
           ELSE /\ EnterLoadBrush(g, strokes[rp.stroke].bt, strokes[rp.stroke].bc)
                /\ UNCHANGED <<pdf, rp>>
    /\ UNCHANGED <<pinVars, notifVars, contentVars, envVars, atlasVars, tplVars, doc, written, calls>>

\* the brush of a stroke is resolved although loadBrush returned an error
RpStrokeDoneIgnoreErr(g) ==
    /\ pc[g] = "rp_stroke_done"
    /\ rp' = [rp EXCEPT !.stroke = rp.stroke + 1]
    /\ pc' = [pc EXCEPT ![g] = "rp_png"]
    /\ UNCHANGED <<pinVars, notifVars, contentVars, envVars, atlasVars, tplVars, doc, pdf, written, call, ret, calls>>

\* loadBrush has returned to renderPNG: its error is the error of renderPNG,
\* of drawingToPdf, doRenderPdfPage, drawingsPdf and of renderPdf; else the
\* next stroke
RpStrokeDone(g) ==
    /\ pc[g] = "rp_stroke_done"
    /\ IF ret[g].err # NoErr
       THEN RpReturn(g, ret[g].err)
       ELSE /\ rp' = [rp EXCEPT !.stroke = rp.stroke + 1]
            /\ pc' = [pc EXCEPT ![g] = "rp_png"]
            /\ UNCHANGED ret
    /\ UNCHANGED <<pinVars, notifVars, contentVars, envVars, atlasVars, tplVars, doc, pdf, written, call, calls>>

\* renderPdf: return pdf.Output(w)
RpOutput(g) ==
    /\ pc[g] = "rp_output"
    /\ written' = [n |-> written.n + 1, pages |-> pdf]
    /\ RpReturn(g, NoErr)
    /\ UNCHANGED <<pinVars, notifVars, contentVars, envVars, atlasVars, tplVars, doc, pdf, call, calls>>

renderPdf(g) ==
    CallRenderPdf(g) \/ RpOverlay(g) \/ RpLoop(g) \/ RpPng(g) \/ RpStrokeDone(g) \/ RpOutput(g)

(***************************************************************************)
(* One goroutine that renders documents of every file type, with pages     *)
(* whose drawing is missing and strokes whose brush cannot be loaded.      *)
(***************************************************************************)
StrokeKinds == {[bt |-> "Ballpoint", bc |-> "Black"], [bt |-> "Ballpoint", bc |-> "Blue"]}

\* the sequences over S of length up to n
SeqsUpTo(S, n) == UNION {[1 .. k -> S] : k \in 0 .. n}

PageKinds == {NotFound} \cup {Drawing(s) : s \in SeqsUpTo(StrokeKinds, MaxStrokes)}

Docs ==
    {[FileType |-> ft,
      Pages |-> [j \in 1 .. Len(kinds) |-> PageIDs[j]],
      Drawings |-> [id \in {PageIDs[j] : j \in 1 .. Len(kinds)} |->
                      kinds[CHOOSE j \in 1 .. Len(kinds) : PageIDs[j] = id]]] :
        ft \in {Notebook, Epub, Pdf}, kinds \in SeqsUpTo(PageKinds, MaxPages)}

InitPdf ==
    /\ InitContext
    /\ InitNotifications
    /\ InitNoPin
    /\ palette = DefaultPalette
    /\ \E png \in {"missing", "ok"} :
          files = DataFiles("ok", IndexOf(<<0, 0, 1, 1>>), png, AtlasSize, {})
    /\ doc \in Docs
    /\ content = NoContent
    /\ page = NoPage
    /\ rp = NoFrame
    /\ pdf = <<>>
    /\ written = NoOutput

NextPdf == renderPdf(1) \/ loadBrushMask(1)

SpecPdf == InitPdf /\ [][NextPdf]_vars

\* loadBrush succeeds for the stroke on this context
StrokeLoads(s) ==
    /\ s.bc \in DOMAIN palette.colors \/ s.bc \in {"Black", "Gray", "White"}
    /\ s.bt \in RecognizedTypes \cup {"CalligraphyV5"}
    /\ AtlasLoadable

\* the page's drawing exists and the brush of each of its strokes loads
PageRenders(id) ==
    /\ doc.Drawings[id].found
    /\ \A k \in 1 .. Len(doc.Drawings[id].strokes) : StrokeLoads(doc.Drawings[id].strokes[k])

(***************************************************************************)
(* C4: rendering a document is atomic. While renderPdf runs and when it    *)
(* has returned an error, nothing is written to the writer; renderPdf of a *)
(* notebook with a page that fails (no drawing, or a stroke whose brush    *)
(* cannot be loaded) returns an error; and the writer has output only when *)
(* renderPdf returned nil, and then for a notebook every page rendered and *)
(* the output holds one page with its picture per page of the document.    *)
(***************************************************************************)
C4_AtomicDocument ==
    /\ rp.g # 0 => written = NoOutput
    /\ \A g \in Goroutines :
          (ret[g].fn = "renderPdf" /\ ret[g].err # NoErr) => written = NoOutput
    /\ \A g \in Goroutines :
          (/\ ret[g].fn = "renderPdf"
           /\ doc.FileType = Notebook
           /\ \E j \in 1 .. Len(doc.Pages) : ~PageRenders(doc.Pages[j])) =>
              ret[g].err # NoErr
    /\ written # NoOutput =>
          /\ written.n = 1
          /\ \E g \in Goroutines : ret[g].fn = "renderPdf" /\ ret[g].err = NoErr
          /\ Len(written.pages) = Len(doc.Pages)
          /\ \A j \in 1 .. Len(doc.Pages) :
                written.pages[j] = [id |-> doc.Pages[j], image |-> TRUE]
          /\ doc.FileType = Notebook =>
                \A j \in 1 .. Len(doc.Pages) : PageRenders(doc.Pages[j])

\* renderPdf of a notebook has failed on its second page, after the first
\* page was added to the PDF with its picture
C4_Witness ==
    /\ ret[1].fn = "renderPdf"
    /\ ret[1].err # NoErr
    /\ doc.FileType = Notebook
    /\ Len(doc.Pages) = 2
    /\ Len(pdf) >= 1
    /\ pdf[1].image
    /\ written = NoOutput

(***************************************************************************)
(* C5: for a Document of file type EPUB renderPdf returns an error before  *)
(* any other step: it is never inside the page loop (no drawing is looked  *)
(* up), the PDF has no page, sprites, spriteIndex and tplCache stay nil,   *)
(* no lock is taken and nothing is written.                                *)
(***************************************************************************)
C5_EpubRefused ==
    doc.FileType = Epub =>
        /\ \A g \in Goroutines :
              /\ pc[g] = "idle"
              /\ ret[g].fn = "renderPdf" => ret[g].err = "render Pdf not supported for file type"
        /\ rp.g = 0
        /\ pdf = <<>>
        /\ sprites.nil /\ spriteIndex.nil /\ tplCache.nil
        /\ spriteMx = Free /\ tplMx = Free
        /\ written = NoOutput

\* renderPdf has returned for an EPUB document with two pages that would render
C5_Witness ==
    /\ doc.FileType = Epub
    /\ Len(doc.Pages) = 2
    /\ \A j \in 1 .. 2 : PageRenders(doc.Pages[j])
    /\ ret[1].fn = "renderPdf"
    /\ ret[1].err # NoErr

(***************************************************************************)
(* Content.Validate                                                        *)
(***************************************************************************)
\* Validate with the comparison of PageCount and len(Pages) left out
ValidateNoCount(c) ==
    IF c.FileType \notin {Notebook, Pdf, Epub} THEN "invalid file type"
    ELSE IF c.Orientation \notin {Portrait, Landscape} THEN "invalid orientation"
    ELSE IF c.CoverPageNumber # defaultCoverPage
            /\ (c.CoverPageNumber < 1 \/ c.CoverPageNumber > c.PageCount)
    THEN "cover page is not an existing page"
    ELSE IF c.TextAlignment \notin {AlignLeft, AlignJustify} THEN "invalid text align"
    ELSE NoErr

\* Content.Validate: the message of the ValidationError, or no error
Validate(c) ==
    IF c.FileType \notin {Notebook, Pdf, Epub} THEN "invalid file type"
    ELSE IF c.Orientation \notin {Portrait, Landscape} THEN "invalid orientation"
    ELSE IF c.PageCount # Len(c.Pages) THEN "pageCount does not match number of pages"
    ELSE IF c.CoverPageNumber # defaultCoverPage
            /\ (c.CoverPageNumber < 1 \/ c.CoverPageNumber > c.PageCount)
    THEN "cover page is not an existing page"
    ELSE IF c.TextAlignment \notin {AlignLeft, AlignJustify} THEN "invalid text align"
    ELSE NoErr

\* errors.NewValidationError
ValidationError == [kind |-> "ValidationError"]

\* c.Validate() on the Content
CallValidate(g) ==
    /\ pc[g] = "idle"
    /\ ret[g].fn = "none"
    /\ call' = [call EXCEPT ![g] = [NoCall EXCEPT !.fn = "Validate"]]
    /\ ret' = [ret EXCEPT ![g] =
                  [fn |-> "Validate", err |-> Validate(content),
                   val |-> IF Validate(content) = NoErr THEN NoVal ELSE ValidationError,
                   call |-> [NoCall EXCEPT !.fn = "Validate"]]]
    /\ UNCHANGED <<pinVars, notifVars, contentVars, envVars, atlasVars, tplVars, pdfVars, pc, calls>>

\* Contents with enum values inside and outside their ranges, page counts and
\* page lists of different lengths, cover pages around the range of the pages
Contents ==
    [FileType : -1 .. 3,
     Orientation : -1 .. 2,
     PageCount : -1 .. MaxPages + 1,
     Pages : {[j \in 1 .. n |-> PageIDs[j]] : n \in 0 .. MaxPages},
     CoverPageNumber : -2 .. MaxPages + 1,
     TextAlignment : -1 .. 2]

\* a fresh context and a Content
InitContent ==
    /\ InitContext
    /\ InitNotifications
    /\ InitNoPin
    /\ doc = NoDoc
    /\ rp = NoFrame
    /\ pdf = <<>>
    /\ written = NoOutput
    /\ content \in Contents
    /\ page = NoPage
    /\ palette = DefaultPalette
    /\ files = DataFiles("ok", IndexOf(<<0, 0, 1, 1>>), "ok", AtlasSize, {})

NextContent == CallValidate(1)

SpecContent == InitContent /\ [][NextContent]_vars

(***************************************************************************)
(* C10: Content.Validate returns a ValidationError for every Content whose *)
(* PageCount differs from len(Pages), and for every Content whose          *)
(* FileType, Orientation or TextAlignment is no value of its enumeration,  *)
(* whatever the other fields are.                                          *)
(***************************************************************************)
C10_InvalidRejected ==
    \A g \in Goroutines :
        ret[g].fn = "Validate" =>
            LET c == content
            IN  (\/ c.PageCount # Len(c.Pages)
                 \/ c.FileType \notin {0, 1, 2}
                 \/ c.Orientation \notin {0, 1}
                 \/ c.TextAlignment \notin {0, 1}) =>
                    (ret[g].err # NoErr /\ ret[g].val = ValidationError)

\* Validate has refused a Content that is valid but for its page count
C10_Witness ==
    /\ ret[1].fn = "Validate"
    /\ content.FileType = Notebook
    /\ content.Orientation = Portrait
    /\ content.TextAlignment = AlignLeft
    /\ content.CoverPageNumber = defaultCoverPage
    /\ content.PageCount = 2
    /\ Len(content.Pages) = 1
    /\ ret[1].err = "pageCount does not match number of pages"

(***************************************************************************)
(* C11: for a Content with valid enumeration values and PageCount equal to *)
(* len(Pages), Content.Validate returns nil exactly when CoverPageNumber   *)
(* is -1 or an index of Pages (Pages[CoverPageNumber] exists: 0 up to      *)
(* len(Pages) - 1).                                                        *)
(***************************************************************************)
C11_CoverPageExists ==
    \A g \in Goroutines :
        (/\ ret[g].fn = "Validate"
         /\ content.FileType \in {Notebook, Pdf, Epub}
         /\ content.Orientation \in {Portrait, Landscape}
         /\ content.TextAlignment \in {AlignLeft, AlignJustify}
         /\ content.PageCount = Len(content.Pages)) =>
            (ret[g].err = NoErr <=>
                \/ content.CoverPageNumber = defaultCoverPage
                \/ content.CoverPageNumber \in 0 .. Len(content.Pages) - 1)

(***************************************************************************)
(* PageMetadata.Validate, LayerMetadata.Validate                           *)
(***************************************************************************)
maxLayers == 5

\* the longest list of layers of the model
MaxLayerCount == 6

\* LayerMetadata.Validate
LayerMetadataValidate(l) ==
    IF l.Name = "" THEN "layer name must not be empty" ELSE NoErr

\* the loop over the layers: the error of the first layer that has one
RECURSIVE ValidateLayers(_)
ValidateLayers(ls) ==
    IF ls = <<>> THEN NoErr
    ELSE IF LayerMetadataValidate(Head(ls)) # NoErr THEN LayerMetadataValidate(Head(ls))
    ELSE ValidateLayers(Tail(ls))

\* PageMetadata.Validate without the check against maxLayers
PageMetadataValidateNoMax(p) ==
    IF p.Layers.nil THEN "no layers defined"
    ELSE IF Len(p.Layers.s) = 0 THEN "no layers defined"
    ELSE ValidateLayers(p.Layers.s)

\* PageMetadata.Validate: the message of the ValidationError, or no error
PageMetadataValidate(p) ==
    IF p.Layers.nil THEN "no layers defined"
    ELSE IF Len(p.Layers.s) = 0 THEN "no layers defined"
    ELSE IF Len(p.Layers.s) > maxLayers THEN "maximum number of layers exceeded"
    ELSE ValidateLayers(p.Layers.s)

\* p.Validate() on the PageMetadata
CallPageValidate(g) ==
    /\ pc[g] = "idle"
    /\ ret[g].fn = "none"
    /\ call' = [call EXCEPT ![g] = [NoCall EXCEPT !.fn = "PageMetadata.Validate"]]
    /\ ret' = [ret EXCEPT ![g] =
                  [fn |-> "PageMetadata.Validate", err |-> PageMetadataValidate(page),
                   val |-> IF PageMetadataValidate(page) = NoErr
                           THEN NoVal ELSE ValidationError,
                   call |-> [NoCall EXCEPT !.fn = "PageMetadata.Validate"]]]
    /\ UNCHANGED <<pinVars, notifVars, contentVars, envVars, atlasVars, tplVars, pdfVars, pc, calls>>

\* layers with and without a name
Layers == {[Name |-> ""], [Name |-> "Layer 1"]}

\* pages with a nil list of layers and with every list of up to MaxLayerCount
\* layers
Pages ==
    {NoPage} \cup
    {[Layers |-> [nil |-> FALSE, s |-> ls]] : ls \in SeqsUpTo(Layers, MaxLayerCount)}

InitPage ==
    /\ InitContext
    /\ InitNotifications
    /\ InitNoPin
    /\ doc = NoDoc
    /\ rp = NoFrame
    /\ pdf = <<>>
    /\ written = NoOutput
    /\ content = NoContent
    /\ page \in Pages
    /\ palette = DefaultPalette
    /\ files = DataFiles("ok", IndexOf(<<0, 0, 1, 1>>), "ok", AtlasSize, {})

NextPage == CallPageValidate(1)

SpecPage == InitPage /\ [][NextPage]_vars

(***************************************************************************)
(* C12: PageMetadata.Validate returns nil exactly when the page has        *)
(* between 1 and 5 layers and every layer has a non-empty name; in every   *)
(* other case (a nil or empty list, more than 5 layers, a layer with an    *)
(* empty name) it returns a ValidationError.                               *)
(***************************************************************************)
C12_LayersValidated ==
    \A g \in Goroutines :
        ret[g].fn = "PageMetadata.Validate" =>
            LET ok == /\ ~page.Layers.nil
                      /\ Len(page.Layers.s) >= 1
                      /\ Len(page.Layers.s) <= 5
                      /\ \A k \in 1 .. Len(page.Layers.s) : page.Layers.s[k].Name # ""
            IN  /\ ret[g].err = NoErr <=> ok
                /\ ~ok => ret[g].val = ValidationError

\* Validate has refused a page with six named layers
C12_Witness ==
    /\ ret[1].fn = "PageMetadata.Validate"
    /\ ~page.Layers.nil
    /\ Len(page.Layers.s) = 6
    /\ \A k \in 1 .. 6 : page.Layers.s[k].Name # ""
    /\ ret[1].err = "maximum number of layers exceeded"
    /\ ret[1].val = ValidationError

(***************************************************************************)
(* Goroutines that load highlighter and ballpoint brushes with different   *)
(* stroke colours, on the default palette and on a caller's palette.       *)
(***************************************************************************)
HighlighterTypes == {"Highlighter", "HighlighterV5"}

InitTint ==
    /\ InitContext
    /\ InitNotifications
    /\ InitNoPin
    /\ InitNoPdf
    /\ palette \in BrushPalettes
    /\ \E png \in {"missing", "ok"} :
          files = DataFiles("ok", IndexOf(<<0, 0, 1, 1>>), png, AtlasSize, {})

NextTint ==
    \E g \in Goroutines :
        \/ \E bt \in HighlighterTypes \cup {"Ballpoint"}, bc \in {"Black", "Blue"} :
              CallLoadBrush(g, bt, bc)
        \/ loadBrushMask(g)

SpecTint == InitTint /\ [][NextTint]_vars

\* goroutine g has got a brush from loadBrush for a Highlighter type
GotHighlighter(g) ==
    /\ ret[g].fn = "loadBrush"
    /\ ret[g].call.bt \in HighlighterTypes
    /\ ret[g].err = NoErr

(***************************************************************************)
(* C13: the brush that loadBrush builds for Highlighter and HighlighterV5  *)
(* is a Highlighter filled with the palette's highlighter tint, whatever   *)
(* the stroke's colour resolves to: any two such brushes have the same     *)
(* fill.                                                                   *)
(***************************************************************************)
C13_HighlighterTint ==
    /\ \A g \in Goroutines :
          GotHighlighter(g) =>
             /\ ret[g].val.kind = "Highlighter"
             /\ ret[g].val.fill = palette.Highlighter
    /\ \A g1, g2 \in Goroutines :
          (GotHighlighter(g1) /\ GotHighlighter(g2)) => ret[g1].val.fill = ret[g2].val.fill

\* two highlighter brushes were built for strokes whose colours resolve to
\* different colours, none of them the tint
C13_Witness ==
    \E g1, g2 \in Goroutines :
        /\ GotHighlighter(g1) /\ GotHighlighter(g2)
        /\ ret[g1].call.col # ret[g2].call.col
        /\ ret[g1].call.col # palette.Highlighter
        /\ ret[g2].call.col # palette.Highlighter
        /\ ret[g1].val.fill = palette.Highlighter

(***************************************************************************)
(* package api: the Notifications client.                                  *)
(*                                                                         *)
(* A channel is a number into chans, a connection a number into socks. The *)
(* loop and read goroutines that Connect starts for connection k are       *)
(* loopG[k] and readG[k]. The fields conn, done and exit are read by these *)
(* goroutines without a lock: each such read is a step of its own and sees *)
(* the value the field has at that step. A panic in any goroutine ends the *)
(* process: no step follows it.                                            *)
(***************************************************************************)
MaxMsgs == 2
MaxConns == 2

Handlers == {"f1", "f2"}

\* the variables of the rendering context and of renderPdf
renderVars == <<contentVars, envVars, atlasVars, tplVars, pdfVars>>

\* the goroutine of connection k as the holder of a mutex
GoId(k) == 0 - k

\* a connection after a successful dial
NewConn == [open |-> TRUE, peerClosed |-> FALSE, closeSent |-> FALSE, inbox |-> <<>>]

NoData == [id |-> 0, json |-> "ok"]
\* the goroutines of a connection before their first step
NewLoop == [pc |-> "lp_select", selDone |-> 0, selExit |-> 0]
NewRead == [pc |-> "rd_start", doneCh |-> 0, sock |-> 0, data |-> NoData,
            handler |-> NilHandler, entry |-> [calls |-> 0, idle |-> TRUE]]

\* the data of a message is a JSON text that fits the wrapper ("ok"), a JSON
\* text in which the value of a field has the wrong type ("mismatch"), or no
\* JSON text ("bad")
JsonKinds == {"ok", "bad", "mismatch"}

\* var w msgWrapper
ZeroWrapper == [id |-> 0, subscription |-> ""]

\* dec.Decode(&w): data that is no JSON text fails before anything is stored;
\* a value of the wrong type is skipped and reported, and the other fields
\* are stored
Decode(data) ==
    CASE data.json = "ok" -> [w |-> [id |-> data.id, subscription |-> "sub"], err |-> NoErr]
      [] data.json = "mismatch" ->
            [w |-> [id |-> 0, subscription |-> "sub"], err |-> "json: cannot unmarshal"]
      [] OTHER -> [w |-> ZeroWrapper, err |-> "invalid character"]

\* msgWrapper.toMessage: the message has the fields of the wrapper
wrapperToMessage(w) == [id |-> w.id, subscription |-> w.subscription]

\* the message that handleMessage builds from the data
ZeroMessage == wrapperToMessage(ZeroWrapper)
toMessage(data) == wrapperToMessage(Decode(data).w)

(***************************************************************************)
(* Notifications.Connect                                                   *)
(***************************************************************************)
CallConnect(g) ==
    /\ panicked = NoPanic
    /\ pc[g] = "idle"
    /\ calls < MaxCalls
    /\ calls' = calls + 1
    /\ Enter(g, [fn |-> "Connect", isConnected |-> FALSE, sock |-> 0], "cn_lock")
    /\ UNCHANGED <<pinVars, renderVars, notifVars>>

\* n.connMx.Lock()
CnLock(g) ==
    /\ panicked = NoPanic
    /\ pc[g] = "cn_lock"
    /\ connMx = Free
    /\ connMx' = g
    /\ pc' = [pc EXCEPT ![g] = "cn_check"]
    /\ UNCHANGED <<pinVars, renderVars, conn, done, exit, hdl, hdlMx, chans, socks, loopG, readG,
                   invocations, sent, panicked, call, ret, calls>>

\* if n.isConnected() { n.Disconnect() }: close(n.exit), which panics when the
\* channel is closed already
CnCheck(g) ==
    /\ panicked = NoPanic
    /\ pc[g] = "cn_check"
    /\ call' = [call EXCEPT ![g].isConnected = (conn # 0)]
    /\ IF conn # 0 /\ chans[exit]
       THEN /\ panicked' = "close of closed channel"
            /\ UNCHANGED <<chans, pc>>
       ELSE /\ chans' = IF conn # 0 THEN [chans EXCEPT ![exit] = TRUE] ELSE chans
            /\ pc' = [pc EXCEPT ![g] = "cn_clear"]
            /\ UNCHANGED panicked
    /\ UNCHANGED <<pinVars, renderVars, conn, connMx, done, exit, hdl, hdlMx, socks, loopG, readG,
                   invocations, sent, ret, calls>>

\* n.conn = nil
CnClear(g) ==
    /\ panicked = NoPanic
    /\ pc[g] = "cn_clear"
    /\ conn' = 0
    /\ pc' = [pc EXCEPT ![g] = "cn_dial"]
    /\ UNCHANGED <<pinVars, renderVars, connMx, done, exit, hdl, hdlMx, chans, socks, loopG, readG,
                   invocations, sent, panicked, call, ret, calls>>

\* websocket.DefaultDialer.Dial: a connection (of at most MaxConns); or an error with the response
\* of the server (Connect returns an error, deferred Unlock); or an error
\* without a response, and res.StatusCode is a nil pointer dereference
CnDial(g) ==
    /\ panicked = NoPanic
    /\ pc[g] = "cn_dial"
    /\ \/ /\ Len(socks) < MaxConns
          /\ socks' = Append(socks, NewConn)
          /\ call' = [call EXCEPT ![g].sock = Len(socks) + 1]
          /\ pc' = [pc EXCEPT ![g] = "cn_conn"]
          /\ UNCHANGED <<connMx, ret, panicked>>
       \/ /\ connMx' = Free
          /\ ReturnErr(g, "websocket connection failed")
          /\ UNCHANGED <<socks, call, panicked>>
       \/ /\ panicked' = "nil pointer dereference"
          /\ UNCHANGED <<socks, call, connMx, ret, pc>>
    /\ UNCHANGED <<pinVars, renderVars, conn, done, exit, hdl, hdlMx, chans, loopG, readG,
                   invocations, sent, calls>>

\* n.conn = conn
CnConn(g) ==
    /\ panicked = NoPanic
    /\ pc[g] = "cn_conn"
    /\ conn' = call[g].sock
    /\ pc' = [pc EXCEPT ![g] = "cn_chans"]
    /\ UNCHANGED <<pinVars, renderVars, connMx, done, exit, hdl, hdlMx, chans, socks, loopG, readG,
                   invocations, sent, panicked, call, ret, calls>>

\* n.done = make(chan struct{}); n.exit = make(chan struct{}); go n.loop();
\* go n.read(); return nil (deferred Unlock)
CnChans(g) ==
    /\ panicked = NoPanic
    /\ pc[g] = "cn_chans"
    /\ chans' = chans \o <<FALSE, FALSE>>
    /\ done' = Len(chans) + 1
    /\ exit' = Len(chans) + 2
    /\ loopG' = Append(loopG, NewLoop)
    /\ readG' = Append(readG, NewRead)
    /\ connMx' = Free
    /\ Return(g, NoErr, NoVal)
    /\ UNCHANGED <<pinVars, renderVars, conn, hdl, hdlMx, socks, invocations, sent, panicked,
                   call, calls>>

Connect(g) ==
    CallConnect(g) \/ CnLock(g) \/ CnCheck(g) \/ CnClear(g) \/ CnDial(g) \/ CnConn(g)
    \/ CnChans(g)

(***************************************************************************)
(* Notifications.Disconnect                                                *)
(***************************************************************************)
\* close(n.exit), which panics when the channel is closed already
Disconnect(g) ==
    /\ panicked = NoPanic
    /\ pc[g] = "idle"
    /\ calls < MaxCalls
    /\ calls' = calls + 1
    /\ call' = [call EXCEPT ![g] = [fn |-> "Disconnect"]]
    /\ IF chans[exit]
       THEN /\ panicked' = "close of closed channel"
            /\ UNCHANGED <<chans, ret>>
       ELSE /\ chans' = [chans EXCEPT ![exit] = TRUE]
            /\ ret' = [ret EXCEPT ![g] = [fn |-> "Disconnect", err |-> NoErr, val |-> NoVal,
                                          call |-> [fn |-> "Disconnect"]]]
            /\ UNCHANGED panicked
    /\ UNCHANGED <<pinVars, renderVars, conn, connMx, done, exit, hdl, hdlMx, socks, loopG, readG,
                   invocations, sent, pc>>

(***************************************************************************)
(* Notifications.OnMessage                                                 *)
(***************************************************************************)
CallOnMessage(g, f) ==
    /\ panicked = NoPanic
    /\ pc[g] = "idle"
    /\ calls < MaxCalls
    /\ calls' = calls + 1
    /\ Enter(g, [fn |-> "OnMessage", f |-> f], "om_lock")
    /\ UNCHANGED <<pinVars, renderVars, notifVars>>

\* n.hdlMx.Lock()
OmLock(g) ==
    /\ panicked = NoPanic
    /\ pc[g] = "om_lock"
    /\ hdlMx = Free
    /\ hdlMx' = g
    /\ pc' = [pc EXCEPT ![g] = "om_set"]
    /\ UNCHANGED <<pinVars, renderVars, conn, connMx, done, exit, hdl, chans, socks, loopG, readG,
                   invocations, sent, panicked, call, ret, calls>>

\* OnMessage that keeps the handler when one is set
OmSetKeep(g) ==
    /\ panicked = NoPanic
    /\ pc[g] = "om_set"
    /\ hdl' = IF hdl = NilHandler THEN call[g].f ELSE hdl
    /\ hdlMx' = Free
    /\ Return(g, NoErr, NoVal)
    /\ UNCHANGED <<pinVars, renderVars, conn, connMx, done, exit, chans, socks, loopG, readG,
                   invocations, sent, panicked, call, calls>>

\* n.hdl = f; n.hdlMx.Unlock()
OmSet(g) ==
    /\ panicked = NoPanic
    /\ pc[g] = "om_set"
    /\ hdl' = call[g].f
    /\ hdlMx' = Free
    /\ Return(g, NoErr, NoVal)
    /\ UNCHANGED <<pinVars, renderVars, conn, connMx, done, exit, chans, socks, loopG, readG,
                   invocations, sent, panicked, call, calls>>

OnMessage(g) == OmLock(g) \/ OmSet(g)

(***************************************************************************)
(* Notifications.loop and Notifications.onDisconnected                     *)
(***************************************************************************)
\* the select statement is entered: n.done and n.exit are evaluated
LoopSelect(k) ==
    /\ panicked = NoPanic
    /\ loopG[k].pc = "lp_select"
    /\ loopG' = [loopG EXCEPT ![k] = [pc |-> "lp_wait", selDone |-> done, selExit |-> exit]]
    /\ UNCHANGED <<pinVars, renderVars, conn, connMx, done, exit, hdl, hdlMx, chans, socks, readG,
                   invocations, sent, panicked, pc, call, ret, calls>>

\* case <-n.done: return (deferred onDisconnected); case <-n.exit: go on with
\* the close message
LoopWait(k) ==
    /\ panicked = NoPanic
    /\ loopG[k].pc = "lp_wait"
    /\ \/ /\ chans[loopG[k].selDone]
          /\ loopG' = [loopG EXCEPT ![k].pc = "od_lock"]
       \/ /\ chans[loopG[k].selExit]
          /\ loopG' = [loopG EXCEPT ![k].pc = "lp_write"]
    /\ UNCHANGED <<pinVars, renderVars, conn, connMx, done, exit, hdl, hdlMx, chans, socks, readG,
                   invocations, sent, panicked, pc, call, ret, calls>>

\* n.conn.WriteMessage(websocket.CloseMessage, close): a nil pointer
\* dereference when n.conn is nil; an error on a connection that is closed
\* (return, deferred onDisconnected); else the close message is sent and the
\* second select is entered, which evaluates n.done
LoopWrite(k) ==
    /\ panicked = NoPanic
    /\ loopG[k].pc = "lp_write"
    /\ IF conn = 0
       THEN /\ panicked' = "nil pointer dereference"
            /\ UNCHANGED <<socks, loopG>>
       ELSE /\ UNCHANGED panicked
            /\ \/ /\ ~socks[conn].open \/ socks[conn].peerClosed
                  /\ loopG' = [loopG EXCEPT ![k].pc = "od_lock"]
                  /\ UNCHANGED socks
               \/ /\ socks[conn].open
                  /\ socks' = [socks EXCEPT ![conn].closeSent = TRUE]
                  /\ loopG' = [loopG EXCEPT ![k].pc = "lp_wait2", ![k].selDone = done]
    /\ UNCHANGED <<pinVars, renderVars, conn, connMx, done, exit, hdl, hdlMx, chans, readG,
                   invocations, sent, pc, call, ret, calls>>

\* the second select of loop without the time.After case
LoopWait2NoTimeout(k) ==
    /\ panicked = NoPanic
    /\ loopG[k].pc = "lp_wait2"
    /\ chans[loopG[k].selDone]
    /\ loopG' = [loopG EXCEPT ![k].pc = "od_lock"]
    /\ UNCHANGED <<pinVars, renderVars, conn, connMx, done, exit, hdl, hdlMx, chans, socks, readG,
                   invocations, sent, panicked, pc, call, ret, calls>>

\* case <-n.done or case <-time.After(time.Second): return (deferred
\* onDisconnected)
LoopWait2(k) ==
    /\ panicked = NoPanic
    /\ loopG[k].pc = "lp_wait2"
    /\ loopG' = [loopG EXCEPT ![k].pc = "od_lock"]
    /\ UNCHANGED <<pinVars, renderVars, conn, connMx, done, exit, hdl, hdlMx, chans, socks, readG,
                   invocations, sent, panicked, pc, call, ret, calls>>

\* onDisconnected: n.connMx.Lock()
OdLock(k) ==
    /\ panicked = NoPanic
    /\ loopG[k].pc = "od_lock"
    /\ connMx = Free
    /\ connMx' = GoId(k)
    /\ loopG' = [loopG EXCEPT ![k].pc = "od_close"]
    /\ UNCHANGED <<pinVars, renderVars, conn, done, exit, hdl, hdlMx, chans, socks, readG,
                   invocations, sent, panicked, pc, call, ret, calls>>

\* onDisconnected: if n.conn != nil { n.conn.Close(); n.conn = nil };
\* n.connMx.Unlock()
OdClose(k) ==
    /\ panicked = NoPanic
    /\ loopG[k].pc = "od_close"
    /\ socks' = IF conn # 0 THEN [socks EXCEPT ![conn].open = FALSE] ELSE socks
    /\ conn' = 0
    /\ connMx' = Free
    /\ loopG' = [loopG EXCEPT ![k].pc = "exited"]
    /\ UNCHANGED <<pinVars, renderVars, done, exit, hdl, hdlMx, chans, readG,
                   invocations, sent, panicked, pc, call, ret, calls>>

onDisconnected(k) == OdLock(k) \/ OdClose(k)

loop(k) == LoopSelect(k) \/ LoopWait(k) \/ LoopWrite(k) \/ LoopWait2(k) \/ onDisconnected(k)

(***************************************************************************)
(* Notifications.read and Notifications.handleMessage                      *)
(***************************************************************************)
\* defer close(n.done): n.done is evaluated
RdStart(k) ==
    /\ panicked = NoPanic
    /\ readG[k].pc = "rd_start"
    /\ readG' = [readG EXCEPT ![k].pc = "rd_call", ![k].doneCh = done]
    /\ UNCHANGED <<pinVars, renderVars, conn, connMx, done, exit, hdl, hdlMx, chans, socks, loopG,
                   invocations, sent, panicked, pc, call, ret, calls>>

\* n.conn.ReadMessage() is called: a nil pointer dereference when n.conn is nil
RdCall(k) ==
    /\ panicked = NoPanic
    /\ readG[k].pc = "rd_call"
    /\ IF conn = 0
       THEN /\ panicked' = "nil pointer dereference"
            /\ UNCHANGED readG
       ELSE /\ readG' = [readG EXCEPT ![k].pc = "rd_wait", ![k].sock = conn]
            /\ UNCHANGED panicked
    /\ UNCHANGED <<pinVars, renderVars, conn, connMx, done, exit, hdl, hdlMx, chans, socks, loopG,
                   invocations, sent, pc, call, ret, calls>>

\* ReadMessage returns: an error on a connection that this side or the server
\* has closed, else the next message, with which handleMessage is called
RdWait(k) ==
    /\ panicked = NoPanic
    /\ readG[k].pc = "rd_wait"
    /\ LET s == readG[k].sock
       IN  IF ~socks[s].open
           THEN /\ readG' = [readG EXCEPT ![k].pc = "rd_exit"]
                /\ UNCHANGED socks
           ELSE IF socks[s].inbox # <<>>
           THEN /\ readG' = [readG EXCEPT ![k].pc = "hm_lock",
                                          ![k].data = Head(socks[s].inbox),
                                          ![k].entry = [calls |-> calls,
                                                        idle |-> \A g \in Goroutines :
                                                                    pc[g] = "idle"]]
                /\ socks' = [socks EXCEPT ![s].inbox = Tail(socks[s].inbox)]
           ELSE /\ socks[s].peerClosed
                /\ readG' = [readG EXCEPT ![k].pc = "rd_exit"]
                /\ UNCHANGED socks
    /\ UNCHANGED <<pinVars, renderVars, conn, connMx, done, exit, hdl, hdlMx, chans, loopG,
                   invocations, sent, panicked, pc, call, ret, calls>>

\* handleMessage: n.hdlMx.Lock()
HmLock(k) ==
    /\ panicked = NoPanic
    /\ readG[k].pc = "hm_lock"
    /\ hdlMx = Free
    /\ hdlMx' = GoId(k)
    /\ readG' = [readG EXCEPT ![k].pc = "hm_read"]
    /\ UNCHANGED <<pinVars, renderVars, conn, connMx, done, exit, hdl, chans, socks, loopG,
                   invocations, sent, panicked, pc, call, ret, calls>>

\* handleMessage: handler := n.hdl; n.hdlMx.Unlock()
HmRead(k) ==
    /\ panicked = NoPanic
    /\ readG[k].pc = "hm_read"
    /\ hdlMx' = Free
    /\ readG' = [readG EXCEPT ![k].pc = "hm_dispatch", ![k].handler = hdl]
    /\ UNCHANGED <<pinVars, renderVars, conn, connMx, done, exit, hdl, chans, socks, loopG,
                   invocations, sent, panicked, pc, call, ret, calls>>

\* handleMessage that calls the handler itself and goes on when it returned
HmDispatchSync(k) ==
    /\ panicked = NoPanic
    /\ \/ /\ readG[k].pc = "hm_dispatch"
          /\ IF readG[k].handler = NilHandler
             THEN /\ readG' = [readG EXCEPT ![k].pc = "rd_call"]
                  /\ UNCHANGED invocations
             ELSE /\ invocations' = Append(invocations,
                                           [handler |-> readG[k].handler,
                                            data |-> readG[k].data,
                                            msg |-> toMessage(readG[k].data),
                                            running |-> TRUE])
                  /\ readG' = [readG EXCEPT ![k].pc = "hm_running"]
       \/ /\ readG[k].pc = "hm_running"
          /\ ~invocations[Len(invocations)].running
          /\ readG' = [readG EXCEPT ![k].pc = "rd_call"]
          /\ UNCHANGED invocations
    /\ UNCHANGED <<pinVars, renderVars, conn, connMx, done, exit, hdl, hdlMx, chans, socks, loopG,
                   sent, panicked, pc, call, ret, calls>>

\* handleMessage that returns when the data cannot be decoded
HmDispatchDropBad(k) ==
    /\ panicked = NoPanic
    /\ readG[k].pc = "hm_dispatch"
    /\ invocations' = IF readG[k].handler = NilHandler \/ Decode(readG[k].data).err # NoErr
                      THEN invocations
                      ELSE Append(invocations,
                                  [handler |-> readG[k].handler,
                                   data |-> readG[k].data,
                                   msg |-> toMessage(readG[k].data),
                                   running |-> TRUE])
    /\ readG' = [readG EXCEPT ![k].pc = "rd_call"]
    /\ UNCHANGED <<pinVars, renderVars, conn, connMx, done, exit, hdl, hdlMx, chans, socks, loopG,
                   sent, panicked, pc, call, ret, calls>>

\* handleMessage: return when the handler is nil; else decode the data and
\* go handler(w.toMessage()); read goes on with the next message
HmDispatch(k) ==
    /\ panicked = NoPanic
    /\ readG[k].pc = "hm_dispatch"
    /\ invocations' = IF readG[k].handler = NilHandler
                      THEN invocations
                      ELSE Append(invocations,
                                  [handler |-> readG[k].handler,
                                   data |-> readG[k].data,
                                   msg |-> toMessage(readG[k].data),
                                   running |-> TRUE])
    /\ readG' = [readG EXCEPT ![k].pc = "rd_call"]
    /\ UNCHANGED <<pinVars, renderVars, conn, connMx, done, exit, hdl, hdlMx, chans, socks, loopG,
                   sent, panicked, pc, call, ret, calls>>

handleMessage(k) == HmLock(k) \/ HmRead(k) \/ HmDispatch(k)

\* the deferred close(n.done) of read, which panics when the channel is
\* closed already
RdExit(k) ==
    /\ panicked = NoPanic
    /\ readG[k].pc = "rd_exit"
    /\ IF chans[readG[k].doneCh]
       THEN /\ panicked' = "close of closed channel"
            /\ UNCHANGED <<chans, readG>>
       ELSE /\ chans' = [chans EXCEPT ![readG[k].doneCh] = TRUE]
            /\ readG' = [readG EXCEPT ![k].pc = "exited"]
            /\ UNCHANGED panicked
    /\ UNCHANGED <<pinVars, renderVars, conn, connMx, done, exit, hdl, hdlMx, socks, loopG,
                   invocations, sent, pc, call, ret, calls>>

read(k) == RdStart(k) \/ RdCall(k) \/ RdWait(k) \/ handleMessage(k) \/ RdExit(k)

(***************************************************************************)
(* The notification service and the handlers.                              *)
(***************************************************************************)
\* the server sends a message, a JSON text or not, on a connection
ServerSend(k, json) ==
    /\ panicked = NoPanic
    /\ sent < MaxMsgs
    /\ socks[k].open /\ ~socks[k].peerClosed
    /\ sent' = sent + 1
    /\ socks' = [socks EXCEPT ![k].inbox = Append(@, [id |-> sent + 1, json |-> json])]
    /\ UNCHANGED <<pinVars, renderVars, conn, connMx, done, exit, hdl, hdlMx, chans, loopG, readG,
                   invocations, panicked, pc, call, ret, calls>>

\* the server closes a connection
ServerClose(k) ==
    /\ panicked = NoPanic
    /\ ~socks[k].peerClosed
    /\ socks' = [socks EXCEPT ![k].peerClosed = TRUE]
    /\ UNCHANGED <<pinVars, renderVars, conn, connMx, done, exit, hdl, hdlMx, chans, loopG, readG,
                   invocations, sent, panicked, pc, call, ret, calls>>

\* a handler returns
HandlerReturn(i) ==
    /\ panicked = NoPanic
    /\ invocations[i].running
    /\ invocations' = [invocations EXCEPT ![i].running = FALSE]
    /\ UNCHANGED <<pinVars, renderVars, conn, connMx, done, exit, hdl, hdlMx, chans, socks, loopG,
                   readG, sent, panicked, pc, call, ret, calls>>

\* the numbers of the connections that Connect has started goroutines for
Conns == 1 .. Len(loopG)

(***************************************************************************)
(* A caller that connects and disconnects in any order, a server that      *)
(* sends messages and closes connections; no handler is set.               *)
(***************************************************************************)
InitConn ==
    /\ InitContext
    /\ InitNotifications
    /\ InitNoPin
    /\ InitNoPdf
    /\ palette = DefaultPalette
    /\ files = DataFiles("ok", IndexOf(<<0, 0, 1, 1>>), "ok", AtlasSize, {})

NextConn ==
    \/ Connect(1)
    \/ Disconnect(1)
    \/ \E k \in Conns : loop(k) \/ RdStart(k) \/ RdCall(k) \/ RdWait(k) \/ RdExit(k)
    \/ \E k \in 1 .. Len(socks) : ServerClose(k)

SpecConn == InitConn /\ [][NextConn]_vars

\* no connection is active: n.conn is nil and the goroutines of every earlier
\* connection have ended
Disconnected ==
    /\ conn = 0
    /\ \A k \in Conns : loopG[k].pc = "exited" /\ readG[k].pc = "exited"

(***************************************************************************)
(* C14: a Disconnect that is called while no connection is active (the     *)
(* client never connected, or an earlier Disconnect or the server has      *)
(* ended the connection) does not panic and leaves the fields conn, done,  *)
(* exit and hdl and the connections as they are.                           *)
(***************************************************************************)
C14_DisconnectIdle ==
    [][\A g \in Goroutines :
          (/\ Disconnected
           /\ pc[g] = "idle"
           /\ calls' # calls
           /\ call'[g].fn = "Disconnect") =>
              (/\ panicked' = NoPanic
               /\ conn' = conn /\ done' = done /\ exit' = exit /\ hdl' = hdl
               /\ socks' = socks)]_vars

(***************************************************************************)
(* C15: a Connect that is called while the client is connected reconnects. *)
(* When it has returned nil, and as long as the caller has made no other   *)
(* call and the server has not closed the new connection, n.conn is the    *)
(* connection this Connect dialled, and that connection is open and no     *)
(* close message was sent on it.                                           *)
(***************************************************************************)
C15_ReconnectHolds ==
    \A g \in Goroutines :
        (/\ pc[g] = "idle"
         /\ call[g].fn = "Connect"
         /\ ret[g].fn = "Connect"
         /\ ret[g].err = NoErr
         /\ ret[g].call.isConnected
         /\ panicked = NoPanic
         /\ ~socks[ret[g].call.sock].peerClosed) =>
            (/\ conn = ret[g].call.sock
             /\ socks[conn].open
             /\ ~socks[conn].closeSent)

(***************************************************************************)
(* A caller that connects once, a second caller that sets handlers, a      *)
(* server that sends messages and closes the connection, and handlers that *)
(* may return or not. Nobody disconnects.                                  *)
(***************************************************************************)
InitHandler ==
    /\ InitContext
    /\ InitNotifications
    /\ InitNoPin
    /\ InitNoPdf
    /\ palette = DefaultPalette
    /\ files = DataFiles("ok", IndexOf(<<0, 0, 1, 1>>), "ok", AtlasSize, {})

NextHandler ==
    \/ socks = <<>> /\ CallConnect(1)
    \/ CnLock(1) \/ CnCheck(1) \/ CnClear(1) \/ CnDial(1) \/ CnConn(1) \/ CnChans(1)
    \/ \E f \in Handlers \cup {NilHandler} : CallOnMessage(2, f)
    \/ OnMessage(2)
    \/ \E k \in Conns : read(k)
    \/ \E k \in 1 .. Len(socks), json \in {"ok", "bad"} : ServerSend(k, json)
    \/ \E k \in 1 .. Len(socks) : ServerClose(k)
    \/ \E i \in 1 .. Len(invocations) : HandlerReturn(i)

SpecHandler == InitHandler /\ [][NextHandler]_vars

\* no OnMessage call has begun, was running or has returned since read k took
\* the message that it is handling
NoOnMessageSince(k) ==
    /\ readG[k].entry.idle
    /\ readG[k].entry.calls = calls

(***************************************************************************)
(* C16: setting a handler removes the current one. When OnMessage(f) has   *)
(* returned, n.hdl is f; a message whose handling began after that, with   *)
(* no other OnMessage call since, is given to f: the handler that          *)
(* handleMessage has read is n.hdl. The step that ends handleMessage       *)
(* starts one invocation, of the handler it has read, and none when that   *)
(* handler is nil; no invocation is ever of a nil handler.                 *)
(***************************************************************************)
C16_HandlerReplaced ==
    /\ [](\A g \in Goroutines :
             (pc[g] = "idle" /\ ret[g].fn = "OnMessage") => hdl = ret[g].call.f)
    /\ [](\A k \in 1 .. MaxConns :
             (k <= Len(readG) /\ readG[k].pc = "hm_dispatch" /\ NoOnMessageSince(k)) =>
                readG[k].handler = hdl)
    /\ [](\A i \in 1 .. MaxMsgs :
             i <= Len(invocations) => invocations[i].handler # NilHandler)
    /\ [][\A k \in 1 .. MaxConns :
             (k <= Len(readG) /\ readG[k].pc = "hm_dispatch" /\ readG'[k].pc # "hm_dispatch") =>
                IF readG[k].handler = NilHandler
                THEN invocations' = invocations
                ELSE /\ Len(invocations') = Len(invocations) + 1
                     /\ SubSeq(invocations', 1, Len(invocations)) = invocations
                     /\ invocations'[Len(invocations')].handler = readG[k].handler
                     /\ invocations'[Len(invocations')].data = readG[k].data]_vars

\* a message was given to f1; then OnMessage(f2) returned and the next
\* message, taken after that, was given to f2
C16_Witness ==
    /\ Len(invocations) = 2
    /\ invocations[1].handler = "f1"
    /\ invocations[2].handler = "f2"
    /\ pc[2] = "idle"
    /\ ret[2].fn = "OnMessage"
    /\ ret[2].call.f = "f2"
    /\ readG[1].entry.idle
    /\ readG[1].entry.calls = calls

(***************************************************************************)
(* A caller that connects once, a second caller that sets the handler f1,  *)
(* a server that sends messages and closes the connection. The read        *)
(* goroutine and a caller inside OnMessage keep running; a handler need    *)
(* not return.                                                             *)
(***************************************************************************)
NextDispatch ==
    \/ socks = <<>> /\ CallConnect(1)
    \/ CnLock(1) \/ CnCheck(1) \/ CnClear(1) \/ CnDial(1) \/ CnConn(1) \/ CnChans(1)
    \/ CallOnMessage(2, "f1")
    \/ OnMessage(2)
    \/ \E k \in Conns : read(k)
    \/ \E k \in 1 .. Len(socks) : ServerSend(k, "ok")
    \/ \E k \in 1 .. Len(socks) : ServerClose(k)
    \/ \E i \in 1 .. Len(invocations) : HandlerReturn(i)

SpecDispatch ==
    /\ InitHandler
    /\ [][NextDispatch]_vars
    /\ WF_vars(\E k \in Conns : read(k))
    /\ WF_vars(OnMessage(2))

(***************************************************************************)
(* C17: the handler runs in a goroutine of its own for each message, so a  *)
(* handler that never returns does not hold up read. While read runs,      *)
(* every message that has arrived is taken from the connection, every      *)
(* message taken is dispatched (handleMessage returns to the read loop),   *)
(* and when the server has closed the connection read ends and closes      *)
(* done.                                                                   *)
(***************************************************************************)
C17_ReadNotBlocked ==
    \A k \in {1} :
        /\ (k <= Len(readG) /\ socks[k].inbox # <<>>)
              ~> (k <= Len(readG) /\ socks[k].inbox = <<>>)
        /\ (k <= Len(readG) /\ readG[k].pc \in {"hm_lock", "hm_read", "hm_dispatch"})
              ~> (k <= Len(readG) /\ readG[k].pc \in {"rd_call", "rd_wait", "rd_exit", "exited"})
        /\ (k <= Len(readG) /\ socks[k].peerClosed)
              ~> (k <= Len(readG) /\ readG[k].pc = "exited" /\ chans[readG[k].doneCh])

\* read has dispatched two messages and has ended after the server closed the
\* connection, while both handler invocations are still running
C17_Witness ==
    /\ Len(invocations) = 2
    /\ invocations[1].running
    /\ invocations[2].running
    /\ socks[1].peerClosed
    /\ readG[1].pc = "exited"
    /\ chans[readG[1].doneCh]

\* the first n pages of the PDF are the first n pages of the document, each
\* with its picture placed
Placed(n) ==
    \A j \in 1 .. n : pdf[j] = [id |-> doc.Pages[j], image |-> TRUE]

(***************************************************************************)
(* C18: renderPdf of a notebook goes through the page IDs one after the    *)
(* other in the order of Document.Pages. The loop position only moves on   *)
(* by one; the drawing of page i is looked up when the pages before it are *)
(* rendered and placed in the PDF, and while page i is rendered it is the  *)
(* last page of the PDF. When renderPdf has returned an error, the loop    *)
(* stopped at the first page that fails and the PDF has no later page;     *)
(* when it has returned nil, the output has one page per page ID, in the   *)
(* order of the document.                                                  *)
(***************************************************************************)
C18_PagesInOrder ==
    /\ []((doc.FileType = Notebook /\ rp.g # 0) =>
             /\ rp.i \in 1 .. Len(doc.Pages) + 1
             /\ \A j \in 1 .. rp.i - 1 : PageRenders(doc.Pages[j])
             /\ Placed(rp.i - 1)
             /\ IF pc[rp.g] \in {"rp_loop", "rp_output"}
                THEN Len(pdf) = rp.i - 1
                ELSE /\ Len(pdf) = rp.i
                     /\ pdf[rp.i] = [id |-> doc.Pages[rp.i], image |-> FALSE]
             /\ pc[rp.g] = "rp_output" => rp.i = Len(doc.Pages) + 1)
    /\ [](\A g \in Goroutines :
             (doc.FileType = Notebook /\ ret[g].fn = "renderPdf") =>
                IF ret[g].err # NoErr
                THEN /\ rp.i \in 1 .. Len(doc.Pages)
                     /\ ~PageRenders(doc.Pages[rp.i])
                     /\ \A j \in 1 .. rp.i - 1 : PageRenders(doc.Pages[j])
                     /\ Len(pdf) <= rp.i
                     /\ Placed(rp.i - 1)
                ELSE /\ rp.i = Len(doc.Pages) + 1
                     /\ Len(written.pages) = Len(doc.Pages)
                     /\ \A j \in 1 .. Len(doc.Pages) :
                           written.pages[j] = [id |-> doc.Pages[j], image |-> TRUE])
    /\ [][rp.g # 0 => (rp'.i = rp.i \/ rp'.i = rp.i + 1)]_vars

\* renderPdf of a notebook of two pages has failed on the first page, and the
\* second page, which would render, was not looked up
C18_Witness ==
    /\ doc.FileType = Notebook
    /\ Len(doc.Pages) = 2
    /\ ~PageRenders(doc.Pages[1])
    /\ PageRenders(doc.Pages[2])
    /\ ret[1].fn = "renderPdf"
    /\ ret[1].err # NoErr
    /\ rp.i = 1
    /\ Len(pdf) <= 1

(***************************************************************************)
(* Goroutines that call loadBrush and loadTemplate on one Context, with    *)
(* atlas files and templates that can and cannot be read.                  *)
(***************************************************************************)
InitLocks ==
    /\ InitContext
    /\ InitNotifications
    /\ InitNoPin
    /\ InitNoPdf
    /\ palette = DefaultPalette
    /\ \E json \in {"missing", "ok"}, png \in {"missing", "ok"}, t \in SUBSET {"Blank"} :
          files = DataFiles(json, IndexOf(<<0, 0, 1, 1>>), png, AtlasSize, t)

NextLocks ==
    \E g \in Goroutines :
        \/ CallLoadTemplate(g, "Blank")
        \/ loadTemplate(g)
        \/ CallLoadBrush(g, "Ballpoint", "Black")
        \/ loadBrushMask(g)

SpecLocks == InitLocks /\ [][NextLocks]_vars

\* the statements of loadTemplate and of lazyLoadSpritesheet between Lock and
\* the deferred Unlock
TplSection == {"lt_check", "lt_read", "lt_insert"}
AtlasSection == {"ls_check", "ls_open", "ls_decode", "ls_png", "ls_copy"}

(***************************************************************************)
(* C19: spriteMx and tplMx are independent. No goroutine holds both; a     *)
(* lock is held only by a goroutine between Lock and the return of the     *)
(* function that took it (so every return, an error return too, releases   *)
(* it, and a goroutine inside the atlas load does not hold tplMx, nor one  *)
(* inside loadTemplate spriteMx); a goroutine that waits for a lock waits  *)
(* for a goroutine inside that lock's own section; and as long as a call   *)
(* is running, some goroutine can take a step: there is no deadlock.       *)
(***************************************************************************)
C19_IndependentLocks ==
    /\ \A g \in Goroutines : ~(spriteMx = g /\ tplMx = g)
    /\ \A g \in Goroutines :
          /\ tplMx = g <=> pc[g] \in TplSection
          /\ spriteMx = g <=> pc[g] \in AtlasSection
    /\ \A g \in Goroutines :
          /\ (pc[g] = "lt_lock" /\ \A h \in Goroutines : pc[h] \notin TplSection) =>
                ENABLED LtLock(g)
          /\ (pc[g] = "ls_lock" /\ \A h \in Goroutines : pc[h] \notin AtlasSection) =>
                ENABLED LsLock(g)
    /\ (\E g \in Goroutines : pc[g] # "idle") =>
          ENABLED (\E g \in Goroutines : loadTemplate(g) \/ loadBrushMask(g))

\* one goroutine reads the atlas picture under spriteMx while another reads a
\* template under tplMx
C19_Witness ==
    \E g, h \in Goroutines :
        /\ g # h
        /\ pc[g] = "ls_png" /\ spriteMx = g
        /\ pc[h] = "lt_read" /\ tplMx = h

\* the sum of tplReads: how often readPNG was run for a template
RECURSIVE SumReads(_)
SumReads(names) ==
    IF names = {} THEN 0
    ELSE LET n == CHOOSE x \in names : TRUE
         IN  tplReads[n] + SumReads(names \ {n})

(***************************************************************************)
(* C20: a loadTemplate(name) whose file cannot be read returns an error    *)
(* and no image, and leaves the entries of the template cache as they      *)
(* are: the step that returns the error changes no entry, a name whose     *)
(* file cannot be read is never in the cache, and the entries of the other *)
(* names stay the image of their first read. The file is read once in the  *)
(* failing call (all calls together read at most once each), and a later   *)
(* call for the name does not find it in the cache and reads the file      *)
(* again.                                                                  *)
(***************************************************************************)
C20_FailedLoadKeepsCache ==
    /\ [](\A g \in Goroutines :
             (ret[g].fn = "loadTemplate" /\ ret[g].call.name \notin files.templates) =>
                (ret[g].err # NoErr /\ ret[g].val = NoVal))
    /\ [](\A n \in TemplateNames :
             /\ n \notin files.templates => n \notin DOMAIN tplCache.m
             /\ n \in DOMAIN tplCache.m => tplCache.m[n] = [name |-> n, serial |-> 1])
    /\ [](SumReads(TemplateNames) <= calls)
    /\ [][\A g \in Goroutines :
             (ret'[g] # ret[g] /\ ret'[g].fn = "loadTemplate" /\ ret'[g].err # NoErr) =>
                (/\ tplCache'.m = tplCache.m
                 /\ tplReads'[call[g].name] = tplReads[call[g].name] + 1
                 /\ tplMx = g /\ tplMx' = Free)]_vars
    /\ [][\A g \in Goroutines :
             (/\ pc[g] = "lt_check"
              /\ call[g].name \notin files.templates
              /\ pc'[g] # pc[g]) =>
                pc'[g] = "lt_read"]_vars

\* two calls for a name whose file cannot be read have failed, each after
\* reading the file, while the other template is in the cache
C20_Witness ==
    \E g \in Goroutines, n \in TemplateNames :
        /\ ret[g].fn = "loadTemplate"
        /\ ret[g].call.name = n
        /\ ret[g].err # NoErr
        /\ n \notin files.templates
        /\ tplReads[n] = 2
        /\ DOMAIN tplCache.m = TemplateNames \ {n}


(***************************************************************************)
(* C21: the template cache only grows. No step removes a name from the     *)
(* cache or changes the image stored for a name; a name is in the cache    *)
(* exactly when a loadTemplate call for it has read its file successfully  *)
(* and stored the image (so it is in the cache once a call for it has      *)
(* returned without error), and it has one entry, the image of the first   *)
(* read; a call that finds its name in the cache returns that image        *)
(* without error and without reading the file.                             *)
(***************************************************************************)
C21_CacheOnlyGrows ==
    /\ [](\A n \in TemplateNames :
             /\ n \in DOMAIN tplCache.m <=>
                   /\ n \in files.templates
                   /\ tplReads[n] >= 1
                   /\ \A g \in Goroutines : ~(pc[g] = "lt_insert" /\ call[g].name = n)
             /\ n \in DOMAIN tplCache.m => tplCache.m[n] = [name |-> n, serial |-> 1])
    /\ [](\A g \in Goroutines :
             (ret[g].fn = "loadTemplate" /\ ret[g].err = NoErr) =>
                ret[g].call.name \in DOMAIN tplCache.m)
    /\ [][\A n \in DOMAIN tplCache.m :
             /\ n \in DOMAIN tplCache'.m
             /\ tplCache'.m[n] = tplCache.m[n]
             /\ tplReads'[n] = tplReads[n]]_vars
    /\ [][\A g \in Goroutines :
             (pc[g] = "lt_check" /\ pc'[g] # pc[g] /\ call[g].name \in DOMAIN tplCache.m) =>
                /\ ret'[g].fn = "loadTemplate"
                /\ ret'[g].err = NoErr
                /\ ret'[g].val = [kind |-> "image", img |-> tplCache.m[call[g].name]]
                /\ tplReads' = tplReads
                /\ tplCache'.m = tplCache.m]_vars

\* both templates are in the cache after three calls, the last of which found
\* its name in the cache: two reads for three calls
C21_Witness ==
    /\ calls = 3
    /\ DOMAIN tplCache.m = TemplateNames
    /\ SumReads(TemplateNames) = 2
    /\ \A g \in Goroutines : pc[g] = "idle"
    /\ \E g \in Goroutines : ret[g].fn = "loadTemplate" /\ ret[g].err = NoErr


(***************************************************************************)
(* C22: a Connect whose dial fails returns an error. The step of the       *)
(* caller that leaves the dial without a connection (no goroutine of a     *)
(* connection and no peer takes part in it) does not panic, returns an     *)
(* error from Connect, starts no loop and no read goroutine, and leaves    *)
(* conn nil and connMx released.                                           *)
(***************************************************************************)
C22_DialFailureReturns ==
    [][\A g \in Goroutines :
          (/\ pc[g] = "cn_dial"
           /\ pc'[g] # "cn_conn"
           /\ UNCHANGED <<loopG, readG, socks>>) =>
              (/\ panicked' = NoPanic
               /\ pc'[g] = "idle"
               /\ ret'[g].fn = "Connect"
               /\ ret'[g].err # NoErr
               /\ conn' = 0
               /\ connMx' = Free)]_vars


(***************************************************************************)
(* A caller that connects once and calls Disconnect at most once, and not  *)
(* after the server has closed the connection; a server that sends         *)
(* messages and closes the connection or never does; no handler is set.   *)
(* The loop and the read goroutine keep running.                           *)
(***************************************************************************)
NextShutdown ==
    \/ socks = <<>> /\ CallConnect(1)
    \/ CnLock(1) \/ CnCheck(1) \/ CnClear(1) \/ CnDial(1) \/ CnConn(1) \/ CnChans(1)
    \/ /\ ~chans[exit]
       /\ \A k \in 1 .. Len(socks) : ~socks[k].peerClosed
       /\ Disconnect(1)
    \/ \E k \in Conns : loop(k)
    \/ \E k \in Conns : read(k)
    \/ \E k \in 1 .. Len(socks) : ServerSend(k, "ok")
    \/ \E k \in 1 .. Len(socks) : ServerClose(k)

SpecShutdown ==
    /\ InitHandler
    /\ [][NextShutdown]_vars
    /\ WF_vars(\E k \in Conns : loop(k))
    /\ WF_vars(\E k \in Conns : read(k))

\* Connect has returned nil for connection k: its goroutines are started
Connected(k) == k <= Len(loopG)

(***************************************************************************)
(* C23: the shutdown of a connection that Connect has made. When the       *)
(* server closes it and Disconnect was not called, then eventually read    *)
(* has closed done and ended, loop has ended, the connection is closed and *)
(* conn is nil, and nothing has panicked on the way. When Disconnect was   *)
(* called, loop eventually ends, whether or not the server closes the      *)
(* connection. loop ends only through onDisconnected, which it runs once:  *)
(* it takes connMx once, never leaves onDisconnected except by ending, and *)
(* when it has ended conn is nil and the connection is closed.             *)
(***************************************************************************)
C23_ShutdownCompletes ==
    /\ \A k \in {1} :
          /\ (Connected(k) /\ socks[k].peerClosed /\ ~chans[exit])
                ~> (/\ Connected(k)
                    /\ readG[k].pc = "exited" /\ chans[readG[k].doneCh]
                    /\ loopG[k].pc = "exited"
                    /\ conn = 0 /\ ~socks[k].open)
          /\ (Connected(k) /\ chans[exit]) ~> (Connected(k) /\ loopG[k].pc = "exited")
          /\ []((Connected(k) /\ ~chans[exit]) => panicked = NoPanic)
          /\ []((Connected(k) /\ loopG[k].pc = "exited") => (conn = 0 /\ ~socks[k].open))
          /\ []((Connected(k) /\ readG[k].pc = "exited") => chans[readG[k].doneCh])
    /\ [][\A k \in Conns :
             /\ (loopG'[k].pc = "od_close" /\ loopG[k].pc # "od_close") =>
                   (loopG[k].pc = "od_lock" /\ connMx = Free)
             /\ (loopG'[k].pc = "od_lock" /\ loopG[k].pc # "od_lock") =>
                   loopG[k].pc \in {"lp_wait", "lp_write", "lp_wait2"}
             /\ loopG[k].pc = "od_close" => loopG'[k].pc \in {"od_close", "exited"}
             /\ loopG[k].pc = "exited" => loopG'[k].pc = "exited"
             /\ (loopG'[k].pc = "exited" /\ loopG[k].pc # "exited") =>
                   loopG[k].pc = "od_close"]_vars

\* the server has sent a message and closed the connection; read has taken
\* the message, has closed done and ended, and loop has ended after
\* onDisconnected, without a Disconnect
C23_Witness ==
    /\ Connected(1)
    /\ socks[1].peerClosed
    /\ ~chans[exit]
    /\ sent = 1 /\ socks[1].inbox = <<>>
    /\ readG[1].pc = "exited"
    /\ loopG[1].pc = "exited"
    /\ conn = 0


(***************************************************************************)
(* A caller that connects once, a second caller that sets or removes the   *)
(* handler f1, and a server that sends messages of every kind and closes   *)
(* the connection.                                                         *)
(***************************************************************************)
NextDecode ==
    \/ socks = <<>> /\ CallConnect(1)
    \/ CnLock(1) \/ CnCheck(1) \/ CnClear(1) \/ CnDial(1) \/ CnConn(1) \/ CnChans(1)
    \/ \E f \in {"f1", NilHandler} : CallOnMessage(2, f)
    \/ OnMessage(2)
    \/ \E k \in Conns : read(k)
    \/ \E k \in 1 .. Len(socks), json \in JsonKinds : ServerSend(k, json)
    \/ \E k \in 1 .. Len(socks) : ServerClose(k)
    \/ \E i \in 1 .. Len(invocations) : HandlerReturn(i)

SpecDecode == InitHandler /\ [][NextDecode]_vars

\* no message has two invocations, and every invocation is for a message that
\* read has taken from the connection
OneInvocationEach ==
    /\ \A i, j \in 1 .. Len(invocations) :
          i # j => invocations[i].data.id # invocations[j].data.id
    /\ \A i \in 1 .. Len(invocations) :
          /\ invocations[i].data.id \in 1 .. sent
          /\ \A k \in 1 .. Len(socks) :
                \A n \in 1 .. Len(socks[k].inbox) :
                    socks[k].inbox[n].id # invocations[i].data.id

\* the step that ends handleMessage for a message during whose handling a
\* handler was registered starts one invocation, of that handler with that
\* message, whether or not the data could be decoded
DispatchInvokes ==
    \A k \in Conns :
        (/\ readG[k].pc = "hm_dispatch"
         /\ readG'[k].pc # "hm_dispatch"
         /\ NoOnMessageSince(k)
         /\ hdl # NilHandler) =>
            /\ Len(invocations') = Len(invocations) + 1
            /\ SubSeq(invocations', 1, Len(invocations)) = invocations
            /\ invocations'[Len(invocations')].handler = hdl
            /\ invocations'[Len(invocations')].data = readG[k].data

(***************************************************************************)
(* C24 as stated, in the states it leads to: no message has more than one  *)
(* invocation, messages whose data fails to decode have invocations too,   *)
(* and the handler then gets the message of the zero-value wrapper.        *)
(***************************************************************************)
C24_ZeroMessageOnDecodeError ==
    /\ OneInvocationEach
    /\ \A i \in 1 .. Len(invocations) :
          Decode(invocations[i].data).err # NoErr => invocations[i].msg = ZeroMessage

(***************************************************************************)
(* C24 as amended: every message received while a handler is registered    *)
(* causes exactly one invocation of the handler, also when its data fails  *)
(* to decode. The handler gets the message of the wrapper as the decoder   *)
(* left it: of the zero-value wrapper when the data is no JSON text, and   *)
(* of the wrapper with the fields stored before the error when a value has *)
(* the wrong type.                                                         *)
(***************************************************************************)
C24_InvokedOnDecodeError ==
    /\ [](OneInvocationEach)
    /\ [][DispatchInvokes]_vars
    /\ [](\A i \in 1 .. Len(invocations) :
             /\ invocations[i].msg = wrapperToMessage(Decode(invocations[i].data).w)
             /\ invocations[i].data.json = "bad" => invocations[i].msg = ZeroMessage
             /\ invocations[i].data.json = "mismatch" =>
                   (invocations[i].msg # ZeroMessage /\ invocations[i].msg.id = 0)
             /\ invocations[i].data.json = "ok" => invocations[i].msg.id = invocations[i].data.id)

\* a handler was invoked for a message that is no JSON text and for a message
\* with a value of the wrong type
C24_Witness ==
    /\ Len(invocations) = 2
    /\ {invocations[1].data.json, invocations[2].data.json} = {"bad", "mismatch"}
    /\ invocations[1].handler # NilHandler


(***************************************************************************)
(* doPin (cmd/rmtool): the repository is set up and listed, the tree is    *)
(* walked, and for every node whose name matches a goroutine of the        *)
(* errgroup.Group sets the bookmark and updates the repository.            *)
(***************************************************************************)
\* matches(n) of rmtool.MatchName(match)
matches(n) == pinIn.names[n] = Match

\* root.Walk calls its function for every node of the tree, one after the other
WalkOrder == [i \in Nodes |-> i]

PinReturn(err) ==
    /\ pinPc' = "returned"
    /\ pinRet' = [returned |-> TRUE, err |-> err]

\* repo, err := setupRepo(s); an error returns
DpSetup ==
    /\ pinPc = "dp_setup"
    /\ IF pinIn.setup
       THEN pinPc' = "dp_list" /\ UNCHANGED pinRet
       ELSE PinReturn(SetupErr)
    /\ UNCHANGED <<notifVars, renderVars, pc, call, ret, calls,
                   pinIn, walkI, group, upd, repo>>

\* items, err := repo.List(); an error returns; root := rmtool.BuildTree(items)
DpList ==
    /\ pinPc = "dp_list"
    /\ IF pinIn.list
       THEN pinPc' = "dp_walk" /\ walkI' = 1 /\ UNCHANGED pinRet
       ELSE PinReturn(ListErr) /\ UNCHANGED walkI
    /\ UNCHANGED <<notifVars, renderVars, pc, call, ret, calls,
                   pinIn, group, upd, repo>>

\* root.Walk: the function is called for the next node; if matches(n) then
\* group.Go starts a goroutine for the node; the function returns nil and the
\* walk goes on; after the last node doPin calls group.Wait
DpWalk ==
    /\ pinPc = "dp_walk"
    /\ IF walkI > MaxNodes
       THEN /\ pinPc' = "dp_wait"
            /\ UNCHANGED <<walkI, group, upd>>
       ELSE LET n == WalkOrder[walkI]
            IN  /\ walkI' = walkI + 1
                /\ IF matches(n)
                   THEN /\ group' = [group EXCEPT !.wg = group.wg + 1]
                        /\ upd' = [upd EXCEPT ![n].pc = "set_pinned"]
                   ELSE UNCHANGED <<group, upd>>
                /\ UNCHANGED pinPc
    /\ UNCHANGED <<notifVars, renderVars, pc, call, ret, calls, pinIn, repo, pinRet>>

\* n.SetPinned(pinned)
UpSetPinned(n) ==
    /\ upd[n].pc = "set_pinned"
    /\ upd' = [upd EXCEPT ![n].pc = "update", ![n].pinned = pinIn.pinned]
    /\ UNCHANGED <<notifVars, renderVars, pc, call, ret, calls,
                   pinIn, pinPc, walkI, group, repo, pinRet>>

\* err := repo.Update(n)
UpUpdate(n) ==
    /\ upd[n].pc = "update"
    /\ IF n \in pinIn.fails
       THEN /\ repo' = [repo EXCEPT ![n].calls = @ + 1]
            /\ upd' = [upd EXCEPT ![n].pc = "ret", ![n].err = UpdateErr(n)]
       ELSE /\ repo' = [repo EXCEPT ![n].calls = @ + 1, ![n].pinned = upd[n].pinned]
            /\ upd' = [upd EXCEPT ![n].pc = "ret"]
    /\ UNCHANGED <<notifVars, renderVars, pc, call, ret, calls,
                   pinIn, pinPc, walkI, group, pinRet>>

\* return err: the Group keeps the first error that is not nil and counts the
\* goroutine as finished
UpReturn(n) ==
    /\ upd[n].pc = "ret"
    /\ group' = [wg |-> group.wg - 1,
                 err |-> IF group.err = NoErr THEN upd[n].err ELSE group.err]
    /\ upd' = [upd EXCEPT ![n].pc = "done"]
    /\ UNCHANGED <<notifVars, renderVars, pc, call, ret, calls,
                   pinIn, pinPc, walkI, repo, pinRet>>

\* group.Wait that returns as soon as the Group has an error
DpWaitFirstError ==
    /\ pinPc = "dp_wait"
    /\ group.wg = 0 \/ group.err # NoErr
    /\ PinReturn(group.err)
    /\ UNCHANGED <<notifVars, renderVars, pc, call, ret, calls,
                   pinIn, walkI, group, upd, repo>>

\* return group.Wait(): waits until every goroutine of the Group has returned
DpWait ==
    /\ pinPc = "dp_wait"
    /\ group.wg = 0
    /\ PinReturn(group.err)
    /\ UNCHANGED <<notifVars, renderVars, pc, call, ret, calls,
                   pinIn, walkI, group, upd, repo>>

update(n) == UpSetPinned(n) \/ UpUpdate(n) \/ UpReturn(n)

doPin == DpSetup \/ DpList \/ DpWalk \/ DpWait

\* doPin is called with any settings, tree, failing updates and value of pinned
InitPin ==
    /\ InitContext
    /\ InitNotifications
    /\ InitNoPdf
    /\ palette = DefaultPalette
    /\ files = DataFiles("ok", IndexOf(<<0, 0, 1, 1>>), "ok", AtlasSize, {})
    /\ pinIn \in [setup : BOOLEAN, list : BOOLEAN, pinned : BOOLEAN,
                  names : [Nodes -> NodeNames], fails : SUBSET Nodes]
    /\ pinPc = "dp_setup"
    /\ walkI = 0
    /\ group = ZeroGroup
    /\ upd = [n \in Nodes |-> NoUpd]
    /\ repo = [n \in Nodes |-> NoUpdate]
    /\ pinRet = NoPinRet

NextPin == doPin \/ \E n \in Nodes : update(n)

SpecPin == InitPin /\ [][NextPin]_vars

\* the nodes that doPin is to update, and those whose update fails
Matching == {n \in Nodes : matches(n)}
FailedUpdates == Matching \cap pinIn.fails

(***************************************************************************)
(* C25: when the repository was set up and listed, doPin attempts the      *)
(* update of every matching node, each in a goroutine of its own and       *)
(* whatever becomes of the others. A goroutine is started for every        *)
(* matching node the walk has passed and for no other node; a goroutine    *)
(* that has not finished can always take its next step, also when the      *)
(* Group holds the error of another node; repo.Update is called at most    *)
(* once for a node. When doPin has returned from Wait, every matching node *)
(* has had its one update and its goroutine has finished, the updates      *)
(* that did not fail have stored the bookmark, and the result is nil       *)
(* exactly when no update failed, else the error of a failed update.       *)
(***************************************************************************)
C25_AllUpdatesAttempted ==
    /\ \A n \in Nodes :
          /\ upd[n].pc # "none" <=> (matches(n) /\ walkI > n)
          /\ repo[n].calls = IF upd[n].pc \in {"ret", "done"} THEN 1 ELSE 0
          /\ upd[n].pc \in {"set_pinned", "update", "ret"} => ENABLED update(n)
    /\ group.wg = Cardinality({n \in Nodes : upd[n].pc \in {"set_pinned", "update", "ret"}})
    /\ (pinRet.returned /\ pinIn.setup /\ pinIn.list) =>
          /\ \A n \in Matching : upd[n].pc = "done" /\ repo[n].calls = 1
          /\ \A n \in Matching \ FailedUpdates : repo[n].pinned = pinIn.pinned
          /\ \A n \in Nodes \ Matching : upd[n].pc = "none" /\ repo[n] = NoUpdate
          /\ pinRet.err = NoErr <=> FailedUpdates = {}
          /\ pinRet.err # NoErr => \E n \in FailedUpdates : pinRet.err = UpdateErr(n)

\* doPin has returned the error of a failed update, and the update of another
\* matching node has stored the bookmark
C25_Witness ==
    /\ pinRet.returned
    /\ \E n, m \in Matching :
          /\ n \in pinIn.fails /\ m \notin pinIn.fails
          /\ pinRet.err = UpdateErr(n)
          /\ repo[m] = [calls |-> 1, pinned |-> pinIn.pinned]
          /\ repo[n] = [calls |-> 1, pinned |-> "unset"]

====
